---- MODULE Spec2Model ----
(***************************************************************************)
(* Drowsiness / yawn detector of main.py: the per-frame debounce state     *)
(* machine of the sampling loop, the alert cooldown, and the non-blocking  *)
(* named-pipe event channel (setup_pipe / try_connect_pipe / send_event).  *)
(*                                                                         *)
(* Timestamps are whole seconds of time.time(); several cycles can fall   *)
(* into the same second.  Measurements (EAR, MAR, blend-shape scores) are  *)
(* counted in hundredths.                                                  *)
(***************************************************************************)
EXTENDS Integers, Sequences, FiniteSets, TLC

\* ---------------------------------------------------------------- bounds
\* Last second of the run, longest time between two cycles, and number of
\* lines the kernel buffer of the FIFO holds.
MaxTime == 9
MaxDt == 2
PipeCap == 2

\* ------------------------------------------------------ program constants
EAR_THRESHOLD == 22
MAR_THRESHOLD == 60
BLINK_SCORE_THRESHOLD == 45
JAW_OPEN_SCORE_THRESHOLD == 35
DROWSY_TIME == 2
YAWN_TIME == 1
ALERT_COOLDOWN == 3

\* Python's None, for a timestamp or a file descriptor that is not set.
None == -1
\* The descriptor os.open returns for the write end of the FIFO.
PipeFd == 3

\* time.time() at process start: seconds since the epoch, far beyond
\* ALERT_COOLDOWN (last_alert_time starts at 0).
StartTime == ALERT_COOLDOWN + 1

\* ------------------------------------------------ inputs of one cycle
\* (ear, blink) readings of a frame with a face: open eyes, closed eyes
\* (low EAR), degenerate eye landmarks (EAR 0).
EyeInputs ==
    { <<30, 0>>, <<15, 60>>, <<0, 0>> }
\* (mar, jawOpen) readings: closed mouth, wide-open mouth.
MouthInputs ==
    { <<30, 0>>, <<70, 40>> }

\* ------------------------------------------------ exceptions (Python)
\* Exception classes an os.open / os.write on the FIFO can raise, and the
\* builtin hierarchy they live in.
ExcParent ==
    [ BrokenPipeError   |-> "ConnectionError",
      ConnectionError   |-> "OSError",
      BlockingIOError   |-> "OSError",
      IsADirectoryError |-> "OSError",
      FileExistsError   |-> "OSError",
      PermissionError   |-> "OSError",
      KeyboardInterrupt |-> "BaseException",
      RuntimeError      |-> "Exception",
      FileNotFoundError |-> "OSError",
      OSError           |-> "Exception",
      Exception         |-> "BaseException" ]

RECURSIVE IsSubclass(_, _)
IsSubclass(exc, cls) ==
    IF exc = cls THEN TRUE
    ELSE IF exc \in DOMAIN ExcParent THEN IsSubclass(ExcParent[exc], cls)
    ELSE FALSE

\* An except clause naming the classes `handlers` catches `exc`.
Catches(handlers, exc) == \E h \in handlers : IsSubclass(exc, h)

\* Faults the operating system may inject into a syscall besides the ones
\* that follow from the pipe's state (ENOENT on open, EIO on write, ...).
OpenFaults == { "none", "FileNotFoundError" }
WriteFaults == { "none", "OSError" }

\* ------------------------------------------------ the FIFO (kernel side)
\* os.open(PIPE_PATH, flags): with O_NONBLOCK a write-only open of a FIFO
\* nobody reads fails at once with ENXIO (OSError); without it the call
\* waits for a reader.
OsOpen(flags, rd, fault) ==
    IF fault # "none" THEN [ fd |-> None, exc |-> fault, blocked |-> FALSE ]
    ELSE IF rd THEN [ fd |-> PipeFd, exc |-> "none", blocked |-> FALSE ]
    ELSE IF "O_NONBLOCK" \in flags
         THEN [ fd |-> None, exc |-> "OSError", blocked |-> FALSE ]
         ELSE [ fd |-> None, exc |-> "none", blocked |-> TRUE ]

\* os.write(fd, data) on the non-blocking write end: EPIPE when no reader
\* holds the FIFO, EAGAIN when the kernel buffer is full.
\* (OsWritePrepends: a buffer that puts the newest line first;
\*  OsWriteWithoutReader: a buffer that takes lines while nobody reads.)
OsWritePrepends(data, rd, buf, fault) ==
    IF fault # "none" THEN [ buf |-> buf, exc |-> fault ]
    ELSE IF ~rd THEN [ buf |-> buf, exc |-> "BrokenPipeError" ]
    ELSE IF Len(buf) >= PipeCap THEN [ buf |-> buf, exc |-> "BlockingIOError" ]
    ELSE [ buf |-> << data >> \o buf, exc |-> "none" ]
OsWriteWithoutReader(data, rd, buf, fault) ==
    IF fault # "none" THEN [ buf |-> buf, exc |-> fault ]
    ELSE IF Len(buf) >= PipeCap THEN [ buf |-> buf, exc |-> "BlockingIOError" ]
    ELSE [ buf |-> Append(buf, data), exc |-> "none" ]
OsWrite(data, rd, buf, fault) ==
    IF fault # "none" THEN [ buf |-> buf, exc |-> fault ]
    ELSE IF ~rd THEN [ buf |-> buf, exc |-> "BrokenPipeError" ]
    ELSE IF Len(buf) >= PipeCap THEN [ buf |-> buf, exc |-> "BlockingIOError" ]
    ELSE [ buf |-> Append(buf, data), exc |-> "none" ]

\* f"{event_type}\n".encode()
\* (EncodeBare: the token without the line terminator.)
EncodeBare(event_type) == << event_type >>
Encode(event_type) == << event_type, "\n" >>

\* ------------------------------------------------ the path of the FIFO
\* A filesystem object: its kind and its permission bits.  NoObject: the
\* path names nothing.
NoObject == [ kind |-> "none", perms |-> {} ]

\* What a starting process can find at PIPE_PATH: nothing; the FIFO of a
\* run that ended without its cleanup; a FIFO somebody made with mode 644;
\* a regular file; a directory; a symbolic link whose target is gone.
PathObjects ==
    { NoObject,
      [ kind |-> "fifo", perms |-> { "S_IRUSR", "S_IWUSR" } ],
      [ kind |-> "fifo", perms |-> { "S_IRUSR", "S_IWUSR", "S_IRGRP", "S_IROTH" } ],
      [ kind |-> "file", perms |-> { "S_IRUSR", "S_IWUSR", "S_IRGRP", "S_IROTH" } ],
      [ kind |-> "dir", perms |-> { "S_IRUSR", "S_IWUSR", "S_IXUSR" } ],
      [ kind |-> "symlink", perms |-> {} ] }

\* File-mode creation masks of the process: 022 and 077.
Umasks ==
    { { "S_IWGRP", "S_IWOTH" },
      { "S_IRGRP", "S_IWGRP", "S_IXGRP", "S_IROTH", "S_IWOTH", "S_IXOTH" } }

\* Faults the operating system may inject into os.mkfifo (EACCES).
MkfifoFaults == { "none", "PermissionError" }

\* os.path.exists(PIPE_PATH): follows symbolic links, so a link whose
\* target is gone does not exist.  (PathExistsNever: the test left out.)
PathExistsNever(obj) == FALSE
PathExists(obj) == obj.kind \notin { "none", "symlink" }

\* os.remove(PIPE_PATH): unlink; a directory cannot be unlinked.
OsRemove(obj) ==
    IF obj.kind = "none" THEN [ obj |-> obj, exc |-> "FileNotFoundError" ]
    ELSE IF obj.kind = "dir" THEN [ obj |-> obj, exc |-> "IsADirectoryError" ]
    ELSE [ obj |-> NoObject, exc |-> "none" ]

\* os.mkfifo(PIPE_PATH, mode): fails when the path names anything, a
\* dangling link included; the new FIFO gets mode & ~umask.
OsMkfifo(obj, mode, umask, fault) ==
    IF fault # "none" THEN [ obj |-> obj, exc |-> fault ]
    ELSE IF obj.kind # "none" THEN [ obj |-> obj, exc |-> "FileExistsError" ]
    ELSE [ obj |-> [ kind |-> "fifo", perms |-> mode \ umask ], exc |-> "none" ]

\* stat.S_IRUSR | stat.S_IWUSR
PipeMode == { "S_IRUSR", "S_IWUSR" }

\* setup_pipe(): the object at the path afterwards and the exception that
\* left the function ("none" when it returned).
SetupPipe(obj, umask, fault) ==
    LET removed == IF PathExists(obj) THEN OsRemove(obj)
                   ELSE [ obj |-> obj, exc |-> "none" ]
    IN  IF removed.exc # "none" THEN removed
        ELSE OsMkfifo(removed.obj, PipeMode, umask, fault)

\* The cleanup of the pipe at the end of main(): os.close on a held
\* descriptor, os.remove on an existing path.
Cleanup(fd, obj) ==
    [ closed |-> fd # None,
      obj |-> IF PathExists(obj) THEN OsRemove(obj).obj ELSE obj ]

\* ------------------------------------------------ the event channel
\* Flags of both os.open calls on the FIFO (main and try_connect_pipe).
OpenFlags == { "O_WRONLY", "O_NONBLOCK" }

\* Exception classes named by the except clause of try_connect_pipe.
TryConnectHandlers == { "OSError" }

\* Exception classes named by the except clause around the os.open in
\* main().  (InitialOpenHandlersNarrow: the clause with FileNotFoundError.)
InitialOpenHandlersNarrow == { "FileNotFoundError" }
InitialOpenHandlers == { "OSError" }

\* Exception classes named by the except clause around main().
MainHandlers == { "KeyboardInterrupt" }

\* Exception classes named by the except clause around os.write.
\* (SendEventHandlersNarrow: the clause with BrokenPipeError alone;
\*  SendEventHandlersNone: a clause that catches nothing.)
SendEventHandlersNarrow == { "BrokenPipeError" }
SendEventHandlersNone == { }
SendEventHandlers == { "BrokenPipeError", "BlockingIOError", "OSError" }

\* try_connect_pipe(): the descriptor, or None when the open fails.
\* oerr is the exception os.open raised ("none" when it returned).
\* attempts is the number of os.open calls made.
\* (TryConnectPipeNever: a function that gives up without calling os.open;
\*  TryConnectPipeRetries: a function that tries once more after a failed
\*  open.)
TryConnectPipeNever(rd, fault) ==
    [ fd |-> None, raised |-> "none", blocked |-> FALSE, oerr |-> "OSError",
      attempts |-> 0 ]
TryConnectPipeRetries(rd, fault) ==
    LET r == OsOpen(OpenFlags, rd, fault)
        again == OsOpen(OpenFlags, rd, "none")
    IN  IF r.exc = "none"
        THEN [ fd |-> r.fd, raised |-> "none", blocked |-> r.blocked,
               oerr |-> "none", attempts |-> 1 ]
        ELSE [ fd |-> again.fd, raised |-> "none", blocked |-> again.blocked,
               oerr |-> again.exc, attempts |-> 2 ]
TryConnectPipe(rd, fault) ==
    LET r == OsOpen(OpenFlags, rd, fault)
    IN  IF r.exc = "none"
        THEN [ fd |-> r.fd, raised |-> "none", blocked |-> r.blocked,
               oerr |-> "none", attempts |-> 1 ]
        ELSE IF Catches(TryConnectHandlers, r.exc)
             THEN [ fd |-> None, raised |-> "none", blocked |-> FALSE,
                    oerr |-> r.exc, attempts |-> 1 ]
             ELSE [ fd |-> None, raised |-> r.exc, blocked |-> FALSE,
                    oerr |-> r.exc, attempts |-> 1 ]

\* if pipe_fd is None: at the head of send_event.
\* (NotConnectedAlways: the test left out, a connect before every write.)
NotConnectedAlways(fd) == TRUE
NotConnected(fd) == fd = None

\* `return pipe_fd` after the try/except around os.write: the descriptor
\* the write was made on, whatever exception `werr` the write raised.
\* (ReturnedHandleDropped: None after any failed write;
\*  ReturnedHandleDroppedOnEpipe: None after a write that found no reader.)
ReturnedHandleDropped(fd, werr) == IF werr = "none" THEN fd ELSE None
ReturnedHandleDroppedOnEpipe(fd, werr) == IF werr = "BrokenPipeError" THEN None ELSE fd
ReturnedHandle(fd, werr) == fd

\* send_event(pipe_fd, event_type).  Result: the returned descriptor, the
\* kernel buffer afterwards, the exception that left the function ("none"
\* when it returned), whether it waited, and the syscalls it made: number
\* of os.open calls, the data of each os.write call, and the exceptions
\* the two syscalls raised.
SendEvent(fd, event_type, rd, buf, ofault, wfault) ==
    LET conn == IF NotConnected(fd)
                THEN TryConnectPipe(rd, ofault)
                ELSE [ fd |-> fd, raised |-> "none", blocked |-> FALSE,
                       oerr |-> "none", attempts |-> 0 ]
        opens == conn.attempts
    IN  IF conn.raised # "none" \/ conn.blocked
        THEN [ fd |-> fd, buf |-> buf, raised |-> conn.raised,
               blocked |-> conn.blocked, opens |-> opens, writes |-> << >>,
               oerr |-> conn.oerr, werr |-> "none" ]
        ELSE IF conn.fd = None
        THEN [ fd |-> None, buf |-> buf, raised |-> "none",
               blocked |-> FALSE, opens |-> opens, writes |-> << >>,
               oerr |-> conn.oerr, werr |-> "none" ]
        ELSE LET w == OsWrite(Encode(event_type), rd, buf, wfault)
                 caught == w.exc = "none" \/ Catches(SendEventHandlers, w.exc)
             IN  [ fd |-> ReturnedHandle(conn.fd, w.exc), buf |-> w.buf,
                   raised |-> IF caught THEN "none" ELSE w.exc,
                   blocked |-> FALSE, opens |-> opens,
                   writes |-> << Encode(event_type) >>,
                   oerr |-> "none", werr |-> w.exc ]

\* ------------------------------------------------ detection, one cycle
\* Frames the landmarker can hand to a cycle: no face, or a face with one
\* eye reading and one mouth reading.
FrameInputs ==
    { << FALSE, <<0, 0>>, <<0, 0>> >> }
        \cup { << TRUE, e, m >> : e \in EyeInputs, m \in MouthInputs }

\* current_ear / blink_score / current_mar / jaw_open_score after the
\* if faces: ... else: ... block: the frame's value, or the reset value 0.
Measured(faces, value) == IF faces THEN value ELSE 0

\* eye_closed_now.  (EyeClosedNowUngated: the rule without the face and
\* the EAR > 0 guards.)
EyeClosedNowUngated(faces, ear, blink) ==
    (ear < EAR_THRESHOLD) \/ (blink >= BLINK_SCORE_THRESHOLD)
EyeClosedNow(faces, ear, blink) ==
    faces /\ ((ear > 0 /\ ear < EAR_THRESHOLD) \/ (blink >= BLINK_SCORE_THRESHOLD))

\* mouth_open_now.  (MouthOpenNowInclusive: the MAR test as >=.)
MouthOpenNowInclusive(faces, mar, jaw) ==
    faces /\ ((mar >= MAR_THRESHOLD) \/ (jaw >= JAW_OPEN_SCORE_THRESHOLD))
MouthOpenNow(faces, mar, jaw) ==
    faces /\ ((mar > MAR_THRESHOLD) \/ (jaw >= JAW_OPEN_SCORE_THRESHOLD))

\* current_time - eye_closed_start >= DROWSY_TIME (and the YAWN_TIME twin).
\* (SustainedStrict, SustainedReversed: the comparison as > and as <=.)
SustainedStrict(current_time, start, duration) == current_time - start > duration
SustainedReversed(current_time, start, duration) == current_time - start <= duration
Sustained(current_time, start, duration) == current_time - start >= duration

\* if not is_drowsy: / if not is_yawning:
\* (FirstConfirmationAlways: the test left out.)
FirstConfirmationAlways(flag) == TRUE
FirstConfirmation(flag) == ~flag

\* The else: branch of a signal (eye open / mouth closed): hard reset.
\* (ResetKeepStart, ResetKeepFlag: one of the two assignments left out.)
ResetKeepStart(start, flag) == [ start |-> start, flag |-> FALSE ]
ResetKeepFlag(start, flag) == [ start |-> None, flag |-> flag ]
Reset(start, flag) == [ start |-> None, flag |-> FALSE ]

\* One signal's if/elif/else block.  `over` is eye_closed_now or
\* mouth_open_now, `start` and `flag` the signal's two variables.  The
\* result carries the variables afterwards, the exception that left the
\* block ("none" when it ran to its end) and the send_event calls made.
\* (SignalStepFallsThrough: the block with `if` in place of `elif`, the
\* sustain test made in the cycle that sets the start as well.)
SignalStepFallsThrough(over, start, flag, duration, token, current_time, fd, rd, buf, ofault, wfault) ==
    LET quiet(st, fl) ==
            [ start |-> st, flag |-> fl, fd |-> fd, buf |-> buf,
              raised |-> "none", blocked |-> FALSE, calls |-> << >> ]
        began == IF start = None THEN current_time ELSE start
    IN  IF over
        THEN IF Sustained(current_time, began, duration)
             THEN IF FirstConfirmation(flag)
                  THEN LET r == SendEvent(fd, token, rd, buf, ofault, wfault)
                           call == [ event_type |-> token, fd_in |-> fd,
                                     reader |-> rd, fd_out |-> r.fd,
                                     raised |-> r.raised,
                                     blocked |-> r.blocked,
                                     opens |-> r.opens, writes |-> r.writes,
                                     oerr |-> r.oerr, werr |-> r.werr ]
                       IN  [ start |-> began, flag |-> TRUE, fd |-> r.fd,
                             buf |-> r.buf, raised |-> r.raised,
                             blocked |-> r.blocked, calls |-> << call >> ]
                  ELSE quiet(began, TRUE)
             ELSE quiet(began, flag)
        ELSE LET z == Reset(start, flag) IN quiet(z.start, z.flag)
SignalStep(over, start, flag, duration, token, current_time, fd, rd, buf, ofault, wfault) ==
    LET quiet(st, fl) ==
            [ start |-> st, flag |-> fl, fd |-> fd, buf |-> buf,
              raised |-> "none", blocked |-> FALSE, calls |-> << >> ]
    IN  IF over
        THEN IF start = None
             THEN quiet(current_time, flag)
             ELSE IF Sustained(current_time, start, duration)
             THEN IF FirstConfirmation(flag)
                  THEN LET r == SendEvent(fd, token, rd, buf, ofault, wfault)
                           call == [ event_type |-> token, fd_in |-> fd,
                                     reader |-> rd, fd_out |-> r.fd,
                                     raised |-> r.raised,
                                     blocked |-> r.blocked,
                                     opens |-> r.opens, writes |-> r.writes,
                                     oerr |-> r.oerr, werr |-> r.werr ]
                           left == r.raised # "none" \/ r.blocked
                       IN  [ start |-> start,
                             flag |-> IF left THEN flag ELSE TRUE,
                             fd |-> IF left THEN fd ELSE r.fd,
                             buf |-> r.buf, raised |-> r.raised,
                             blocked |-> r.blocked, calls |-> << call >> ]
                  ELSE quiet(start, TRUE)
             ELSE quiet(start, flag)
        ELSE LET z == Reset(start, flag) IN quiet(z.start, z.flag)

\* The event_type of the eye block's and of the mouth block's send_event.
\* (YawnTokenCopied: the mouth block sending the eye block's token.)
DrowsyToken == "DROWSY"
YawnTokenCopied == "DROWSY"
YawnToken == "YAWN"

\* current_time - last_alert_time > ALERT_COOLDOWN
\* (AlertDueNoCooldown: no test; AlertDueInclusive: the test as >=.)
AlertDueNoCooldown(current_time, last) == TRUE
AlertDueInclusive(current_time, last) == current_time - last >= ALERT_COOLDOWN
AlertDue(current_time, last) == current_time - last > ALERT_COOLDOWN

\* if is_drowsy or is_yawning:
\* (AlertConsideredBoth: the test with `and`.)
AlertConsideredBoth(drowsy, yawning) == drowsy /\ yawning
AlertConsidered(drowsy, yawning) == drowsy \/ yawning

\* last_alert_time after the alert block: the assignment
\* last_alert_time = current_time is made only next to play_alert_sound().
\* (LastAlertTimeCleared: a cycle without an alert clearing the timer.)
LastAlertTimeCleared(fire, current_time, last) == IF fire THEN current_time ELSE 0
LastAlertTime(fire, current_time, last) == IF fire THEN current_time ELSE last

\* ------------------------------------------------ state
VARIABLES
    pc,                 \* "loop" while the sampling loop runs
    clock,              \* the last value time.time() returned
    cycle_time,         \* current_time of the detection block (first read)
    faces,              \* faces of the last frame (non-empty or not)
    eye_closed_now, mouth_open_now,
    eye_closed_start, yawn_start, is_drowsy, is_yawning,
    last_alert_time,
    pipe_fd,            \* the producer's descriptor, or None
    reader,             \* a consumer holds the FIFO open for reading
    pipeBuf,            \* lines in the kernel buffer of the FIFO
    \* --- history of the last cycle and of the run so far
    sendLog,            \* the send_event calls of the last cycle
    alert_considered,   \* the last cycle reached the cooldown test
    alerted,            \* the last cycle called play_alert_sound
    alertLast,          \* timestamp of the last play_alert_sound call
    alertGap,           \* when the last cycle called it: time since the
                        \* call before (None at the first call)
    eyeRun, mouthRun,   \* the current run of over-threshold cycles
    surplus,            \* per token: send_event calls minus flag risings
    \* --- the process around the loop
    path_obj,           \* the filesystem object at PIPE_PATH
    fd_closed,          \* os.close(pipe_fd) was called
    teardowns,          \* times the cleanup of the pipe has run
    exit_path,          \* how the process ended ("none" while it runs)
    uncaught,           \* the exception that ended it ("none": a return)
    setup_log,          \* what setup_pipe found at the path and how it
                        \* ended (kept until the first os.open)
    open_fds,           \* descriptors of the FIFO the process has open
                        \* (counted where main() is followed as a whole)
    dropRun,            \* sends dropped in a row for lack of a reader
    twin,               \* a second run, fed the same frames and clock
    \* --- one cycle's readings
    measured,           \* current_ear, blink_score, current_mar and
                        \* jaw_open_score of the last frame
    \* --- the time that really passes
    real,               \* readings of a clock no adjustment touches
                        \* (CLOCK_MONOTONIC), taken along with time.time()
    \* --- the configuration
    sustain,            \* the two sustain durations the loop runs with
    \* --- the WebSocket service (backend/app/api/websocket.py)
    manager,            \* ConnectionManager: active_connections and
                        \* user_sessions, keyed by the user_id of the path
    detection_events,   \* the rows of the table detection_events
    connections         \* per connection: the locals of its
                        \* websocket_endpoint call, the messages it has
                        \* received and the reply to the last one

vars ==
    << pc, clock, cycle_time, faces, eye_closed_now, mouth_open_now,
       eye_closed_start, yawn_start, is_drowsy, is_yawning, last_alert_time,
       pipe_fd, reader, pipeBuf, sendLog, alert_considered, alerted,
       alertLast, alertGap, eyeRun, mouthRun, surplus,
       path_obj, fd_closed, teardowns, exit_path, uncaught, setup_log,
       open_fds, dropRun, twin, measured, real, sustain, manager,
       detection_events, connections >>

\* The variables of the process around the loop, of the drop history and
\* of the second run.
procVars ==
    << path_obj, fd_closed, teardowns, exit_path, uncaught, setup_log,
       open_fds >>

Tokens == { "DROWSY", "YAWN" }

\* A run is a maximal sequence of consecutive cycles that all had a face
\* and were over-threshold.
\*   first    timestamp of the run's first cycle (None between runs)
\*   reached  an earlier cycle of the run was already at least the sustain
\*            duration after first
\*   events   send_event calls of the signal's block during the run
\*   rose     the last cycle raised the signal's flag
\*   ended    the last cycle ended a run: with the flag "up" or "down"
\*            ("no" when it ended none)
\*   prevSpan time the previous run lasted when it ended with the flag
\*            down; kept until the flag has risen (0 otherwise)
NoRun ==
    [ first |-> None, reached |-> FALSE, events |-> 0, rose |-> FALSE,
      ended |-> "no", prevSpan |-> 0 ]

RunNext(run, over, t, prevT, duration, flagBefore, flagAfter, n) ==
    LET continuing == over /\ run.first # None
        ending == ~over /\ run.first # None
    IN  [ first   |-> IF ~over THEN None
                      ELSE IF continuing THEN run.first ELSE t,
          reached |-> continuing /\ (prevT - run.first >= duration),
          events  |-> (IF continuing THEN run.events ELSE 0) + n,
          rose    |-> flagAfter /\ ~flagBefore,
          ended   |-> IF ~ending THEN "no"
                      ELSE IF flagBefore THEN "up" ELSE "down",
          prevSpan |-> IF ending
                       THEN (IF flagBefore THEN 0 ELSE prevT - run.first)
                       ELSE IF flagBefore THEN 0 ELSE run.prevSpan ]

\* setup_log before any setup_pipe call; dropRun before any send; the
\* second run when there is none.
NoSetup == [ called |-> FALSE, found |-> NoObject, exc |-> "none" ]
NoDrops == [ now |-> 0, before |-> 0 ]
NoTwin == [ mode |-> "none" ]

\* The readings before the first frame (the values main() starts with).
NoReadings == [ ear |-> 0, blink |-> 0, mar |-> 0, jaw |-> 0 ]

\* The variables only the specifications of single parts of the program
\* follow, and their values where they are not followed.
wsVars == << manager, detection_events, connections >>

sideVars ==
    << measured, real, sustain, manager, detection_events, connections >>

\* The untouched clock where time.time() reads t: both clocks agree, and
\* no signal is Pending.
\*   now         its reading along with the last time.time() call
\*   cycle       its reading along with current_time of the last cycle
\*   eyeSince    its reading in the cycle that set eye_closed_start (None
\*   mouthSince  while the start is None); the same for yawn_start
\*   adjusted    adjustments of the system clock so far
RealAt(t) ==
    [ now |-> t, cycle |-> t, eyeSince |-> None, mouthSince |-> None,
      adjusted |-> 0 ]

\* ------------------------------------------------ the WebSocket service
\* Connections followed, and rows the table takes.
MaxConns == 2
MaxEvents == 3

Conns == 1..MaxConns

\* user_id path parameters: one UUID in lower case, the same UUID in upper
\* case, and a string that is no UUID.
UserIds ==
    { "123e4567-e89b-12d3-a456-426614174000",
      "123E4567-E89B-12D3-A456-426614174000",
      "bob" }

\* UUID(user_id): the UUID object (written in its canonical lower-case
\* form), or ValueError.
ToUuid(user_id) ==
    IF user_id \in { "123e4567-e89b-12d3-a456-426614174000",
                     "123E4567-E89B-12D3-A456-426614174000" }
    THEN [ value |-> "123e4567-e89b-12d3-a456-426614174000", exc |-> "none" ]
    ELSE [ value |-> "", exc |-> "ValueError" ]

\* Texts a client sends: the two events, ping, get_stats, an event type in
\* lower case, a JSON array, and no JSON at all.
Texts ==
    { "{\"type\": \"DROWSY\"}", "{\"type\": \"YAWN\"}",
      "{\"type\": \"ping\"}", "{\"type\": \"get_stats\"}",
      "{\"type\": \"drowsy\"}", "[1]", "DROWSY" }

\* json.loads(data) followed by message.get("type"): the type,
\* JSONDecodeError for a text that is no JSON, AttributeError for a JSON
\* value that is no object.
MessageType(data) ==
    IF data = "{\"type\": \"DROWSY\"}" THEN [ type |-> "DROWSY", exc |-> "none" ]
    ELSE IF data = "{\"type\": \"YAWN\"}" THEN [ type |-> "YAWN", exc |-> "none" ]
    ELSE IF data = "{\"type\": \"ping\"}" THEN [ type |-> "ping", exc |-> "none" ]
    ELSE IF data = "{\"type\": \"get_stats\"}"
         THEN [ type |-> "get_stats", exc |-> "none" ]
    ELSE IF data = "{\"type\": \"drowsy\"}" THEN [ type |-> "drowsy", exc |-> "none" ]
    ELSE IF data = "[1]" THEN [ type |-> "None", exc |-> "AttributeError" ]
    ELSE [ type |-> "None", exc |-> "JSONDecodeError" ]

\* Failures the database may answer a flush or a commit with.
DbFaults == { "none", "DBAPIError" }

\* EventService.log_event followed by db.commit(): the table with the new
\* row (its primary key a fresh uuid4, here the session and the row's
\* number in it), or the table as it was when the database failed.
LogEvent(rows, user_id, session_id, event_type, fault) ==
    IF fault # "none" THEN [ rows |-> rows, exc |-> fault ]
    ELSE [ rows |-> rows \cup { [ id |-> << session_id,
                                           Cardinality({ r \in rows :
                                             r.session_id = session_id }) >>,
                                  user_id |-> user_id,
                                  session_id |-> session_id,
                                  event_type |-> event_type ] },
           exc |-> "none" ]

\* sum(counts.values())
RECURSIVE SumValues(_, _)
SumValues(counts, keys) ==
    IF keys = { } THEN 0
    ELSE LET k == CHOOSE x \in keys : TRUE
         IN  counts[k] + SumValues(counts, keys \ { k })

\* counts.get(key, 0)
GetOr(counts, key, default) ==
    IF key \in DOMAIN counts THEN counts[key] ELSE default

\* The rows the where clause of get_session_stats selects.
\* (SelectedByUser: the clause without the session_id test.)
SelectedByUser(rows, user_id, session_id) ==
    { r \in rows : r.user_id = user_id }
Selected(rows, user_id, session_id) ==
    { r \in rows : r.user_id = user_id /\ r.session_id = session_id }

\* EventService.get_session_stats: count per event_type over the selected
\* rows, then the three numbers of the reply.
GetSessionStats(rows, user_id, session_id) ==
    LET sel == Selected(rows, user_id, session_id)
        counts == [ t \in { r.event_type : r \in sel } |->
                        Cardinality({ r \in sel : r.event_type = t }) ]
    IN  [ session_id |-> session_id,
          drowsy_count |-> GetOr(counts, "DROWSY", 0),
          yawn_count |-> GetOr(counts, "YAWN", 0),
          total_events |-> SumValues(counts, DOMAIN counts) ]

\* A connection nobody has made yet; the data of a reply without any.
NoStats ==
    [ session_id |-> 0, drowsy_count |-> 0, yawn_count |-> 0,
      total_events |-> 0 ]
NoConnection ==
    [ state |-> "idle", user_id |-> "", session_id |-> 0,
      drowsy |-> 0, yawn |-> 0,
      reply |-> [ type |-> "none", data |-> NoStats ],
      invalid_json |-> FALSE ]

\* A connection whose endpoint call has returned: its locals are gone.
EndedConnection == [ NoConnection EXCEPT !.state = "ended" ]

\* The sustain durations of the configuration section of main.py.
Configured == [ drowsy |-> DROWSY_TIME, yawn |-> YAWN_TIME ]

SideInit ==
    /\ measured = NoReadings
    /\ real = RealAt(clock)
    /\ open_fds = IF pipe_fd = None THEN 0 ELSE 1
    /\ sustain = Configured
    /\ manager = [ active_connections |-> [ u \in UserIds |-> 0 ],
                   user_sessions |-> [ u \in UserIds |-> 0 ] ]
    /\ detection_events = { }
    /\ connections = [ c \in Conns |-> NoConnection ]

\* The loop as main() enters it: setup_pipe has made the FIFO, a consumer
\* may have attached, and the first os.open has been made.
Init ==
    /\ pc = "loop"
    /\ clock = StartTime
    /\ cycle_time = StartTime
    /\ faces = FALSE
    /\ eye_closed_now = FALSE
    /\ mouth_open_now = FALSE
    /\ eye_closed_start = None
    /\ yawn_start = None
    /\ is_drowsy = FALSE
    /\ is_yawning = FALSE
    /\ last_alert_time = 0
    /\ reader \in BOOLEAN
    /\ pipe_fd = OsOpen(OpenFlags, reader, "none").fd
    /\ pipeBuf = << >>
    /\ sendLog = << >>
    /\ alert_considered = FALSE
    /\ alerted = FALSE
    /\ alertLast = None
    /\ alertGap = None
    /\ eyeRun = NoRun
    /\ mouthRun = NoRun
    /\ surplus = [ k \in Tokens |-> 0 ]
    /\ path_obj = SetupPipe(NoObject, {}, "none").obj
    /\ fd_closed = FALSE
    /\ teardowns = 0
    /\ exit_path = "none"
    /\ uncaught = "none"
    /\ setup_log = NoSetup
    /\ dropRun = NoDrops
    /\ twin = NoTwin
    /\ SideInit

\* ------------------------------------------------ actions
\* The else: branch of `if faces:` resets a detection variable; with a
\* face the variable keeps its value into the detection block.
AfterFrame(f, value, resetValue) == IF f THEN value ELSE resetValue

\* A signal's block reaches its send_event call in this cycle.
WillSend(over, start, flag, duration, current_time) ==
    /\ over
    /\ start # None
    /\ Sustained(current_time, start, duration)
    /\ FirstConfirmation(flag)

\* Faults are drawn only for the syscalls of a send_event call that is made.
FaultsFor(sends, faults) == IF sends THEN faults ELSE { "none" }

\* One pass of the body of `while True:` with a frame read from the
\* camera: landmarks, detection of both signals, alert, no quit key.
\* drowsy_time and yawn_time are the two sustain durations.
LoopPassWith(drowsy_time, yawn_time) ==
    /\ pc = "loop"
    /\ \E in \in FrameInputs, dt \in 0..MaxDt :
        LET f      == in[1]
            ear    == Measured(f, in[2][1])
            blink  == Measured(f, in[2][2])
            mar    == Measured(f, in[3][1])
            jaw    == Measured(f, in[3][2])
            eStart == AfterFrame(f, eye_closed_start, None)
            yStart == AfterFrame(f, yawn_start, None)
            eFlag  == AfterFrame(f, is_drowsy, FALSE)
            yFlag  == AfterFrame(f, is_yawning, FALSE)
            eyeNow   == EyeClosedNow(f, ear, blink)
            mouthNow == MouthOpenNow(f, mar, jaw)
            \* time.time() before the detection block
            t1 == clock + dt
        IN  /\ t1 <= MaxTime
            /\ \E of1 \in FaultsFor(WillSend(eyeNow, eStart, eFlag, drowsy_time, t1), OpenFaults),
                  wf1 \in FaultsFor(WillSend(eyeNow, eStart, eFlag, drowsy_time, t1), WriteFaults),
                  of2 \in FaultsFor(WillSend(mouthNow, yStart, yFlag, yawn_time, t1), OpenFaults),
                  wf2 \in FaultsFor(WillSend(mouthNow, yStart, yFlag, yawn_time, t1), WriteFaults) :
               \* the eye block, then (unless an exception left it) the
               \* mouth block, then the alert block
               \E e \in { SignalStep(eyeNow, eStart, eFlag, drowsy_time,
                                     DrowsyToken, t1, pipe_fd, reader, pipeBuf,
                                     of1, wf1) } :
               \E m \in { IF e.raised # "none" \/ e.blocked
                          THEN [ start |-> yStart, flag |-> yFlag,
                                 fd |-> e.fd, buf |-> e.buf,
                                 raised |-> e.raised, blocked |-> e.blocked,
                                 calls |-> << >> ]
                          ELSE SignalStep(mouthNow, yStart, yFlag, yawn_time,
                                          YawnToken, t1, e.fd, reader, e.buf,
                                          of2, wf2) } :
               \E left \in { m.raised # "none" \/ m.blocked } :
               \E considered \in { ~left /\ AlertConsidered(e.flag, m.flag) } :
               \* time.time() before the alert block, after the drawing:
               \* the same second or the next.  The value is used only
               \* inside the alert block.
               \E t2 \in IF considered THEN { t1, t1 + 1 } ELSE { t1 } :
               \E fire \in { considered /\ AlertDue(t2, last_alert_time) } :
                    /\ t2 <= MaxTime
                    /\ pc' = IF m.raised # "none" THEN "crashed"
                             ELSE IF m.blocked THEN "blocked" ELSE "loop"
                    /\ clock' = t2
                    /\ cycle_time' = t1
                    /\ faces' = f
                    /\ eye_closed_now' = eyeNow
                    /\ mouth_open_now' = mouthNow
                    /\ eye_closed_start' = e.start
                    /\ is_drowsy' = e.flag
                    /\ yawn_start' = m.start
                    /\ is_yawning' = m.flag
                    /\ pipe_fd' = m.fd
                    /\ pipeBuf' = m.buf
                    /\ last_alert_time' = LastAlertTime(fire, t2, last_alert_time)
                    /\ sendLog' = e.calls \o m.calls
                    /\ alert_considered' = considered
                    /\ alerted' = fire
                    /\ alertLast' = IF fire THEN t2 ELSE alertLast
                    /\ alertGap' = IF fire /\ alertLast # None
                                   THEN t2 - alertLast ELSE None
                    /\ eyeRun' = RunNext(eyeRun, eyeNow, t1, cycle_time,
                                         drowsy_time, is_drowsy, e.flag,
                                         Len(e.calls))
                    /\ mouthRun' = RunNext(mouthRun, mouthNow, t1, cycle_time,
                                           yawn_time, is_yawning, m.flag,
                                           Len(m.calls))
                    /\ surplus' =
                         [ k \in Tokens |-> surplus[k] +
                             IF k = "DROWSY"
                             THEN Len(e.calls)
                                  - (IF e.flag /\ ~is_drowsy THEN 1 ELSE 0)
                             ELSE Len(m.calls)
                                  - (IF m.flag /\ ~is_yawning THEN 1 ELSE 0) ]
                    /\ UNCHANGED reader

\* The pass with the sustain durations the program is configured with.
LoopPass == LoopPassWith(DROWSY_TIME, YAWN_TIME)

\* The pass, in a run that is looked at from the loop's start on.
Cycle ==
    /\ LoopPass
    /\ UNCHANGED << procVars, dropRun, twin, sideVars >>

\* The phases of main() in which the FIFO exists and a consumer can come
\* and go: before the first os.open, while the camera starts, in the loop.
ReaderPhases == { "connect", "camera", "loop" }

\* A consumer (event_listener.py) opens the FIFO for reading.
ReaderAttach ==
    /\ pc \in ReaderPhases
    /\ ~reader
    /\ reader' = TRUE
    /\ UNCHANGED << pc, clock, cycle_time, faces, eye_closed_now,
                    mouth_open_now, eye_closed_start, yawn_start, is_drowsy,
                    is_yawning, last_alert_time, pipe_fd, pipeBuf, sendLog,
                    alert_considered, alerted, alertLast, alertGap, eyeRun, mouthRun,
                    surplus, procVars, dropRun, twin, sideVars >>

\* The consumer closes its end (or dies).  The kernel keeps the buffered
\* lines only while some descriptor of the FIFO stays open.
ReaderDetach ==
    /\ pc \in ReaderPhases
    /\ reader
    /\ reader' = FALSE
    /\ pipeBuf' = IF pipe_fd = None THEN << >> ELSE pipeBuf
    /\ UNCHANGED << pc, clock, cycle_time, faces, eye_closed_now,
                    mouth_open_now, eye_closed_start, yawn_start, is_drowsy,
                    is_yawning, last_alert_time, pipe_fd, sendLog,
                    alert_considered, alerted, alertLast, alertGap, eyeRun, mouthRun,
                    surplus, procVars, dropRun, twin, sideVars >>

\* pipe.readline() of the consumer takes the oldest buffered line.
ReaderRead ==
    /\ pc \in ReaderPhases
    /\ reader
    /\ pipeBuf # << >>
    /\ pipeBuf' = Tail(pipeBuf)
    /\ UNCHANGED << pc, clock, cycle_time, faces, eye_closed_now,
                    mouth_open_now, eye_closed_start, yawn_start, is_drowsy,
                    is_yawning, last_alert_time, pipe_fd, reader, sendLog,
                    alert_considered, alerted, alertLast, alertGap, eyeRun, mouthRun,
                    surplus, procVars, dropRun, twin, sideVars >>

Next ==
    \/ Cycle
    \/ ReaderAttach
    \/ ReaderDetach
    \/ ReaderRead

Spec == Init /\ [][Next]_vars

\* ------------------------------------------------ main() around the loop
\* time.time() at the start of a process that is followed from the first
\* line of main() to its end.
MainStart == MaxTime - 3

\* How the camera start can end: VideoCapture not opened (return), first
\* frame unreadable (cap.release(), return), or a frame and the loop.
CameraOutcomes == { "no_camera", "no_frame", "ok" }

\* Why the loop is left with break: cap.read() failed, or ESC / q / window
\* closed.
BreakReasons == { "read_fail", "quit" }

\* Exceptions raised inside main() by something other than the pipe:
\* Ctrl+C, and an error of the camera or the landmarker.
Raised == { "KeyboardInterrupt", "RuntimeError" }

\* One send_event call more in the history of drops: a call made while no
\* reader is attached is dropped.
DropStep(run, call) ==
    [ before |-> run.now, now |-> IF ~call.reader THEN run.now + 1 ELSE 0 ]

RECURSIVE DropsAfter(_, _)
DropsAfter(run, log) ==
    IF log = << >> THEN run
    ELSE DropsAfter(DropStep(run, Head(log)), Tail(log))

MainInit ==
    /\ pc = "start"
    /\ clock = MainStart
    /\ cycle_time = MainStart
    /\ faces = FALSE
    /\ eye_closed_now = FALSE
    /\ mouth_open_now = FALSE
    /\ eye_closed_start = None
    /\ yawn_start = None
    /\ is_drowsy = FALSE
    /\ is_yawning = FALSE
    /\ last_alert_time = 0
    /\ reader = FALSE
    /\ pipe_fd = None
    /\ pipeBuf = << >>
    /\ sendLog = << >>
    /\ alert_considered = FALSE
    /\ alerted = FALSE
    /\ alertLast = None
    /\ alertGap = None
    /\ eyeRun = NoRun
    /\ mouthRun = NoRun
    /\ surplus = [ k \in Tokens |-> 0 ]
    /\ path_obj \in PathObjects
    /\ fd_closed = FALSE
    /\ teardowns = 0
    /\ exit_path = "none"
    /\ uncaught = "none"
    /\ setup_log = NoSetup
    /\ dropRun = NoDrops
    /\ twin = NoTwin
    /\ SideInit

\* The process ends: how, and with which exception leaving the program
\* ("none" for a return or a handled exception).  Its variables are gone;
\* the descriptor, the path and the consumer are what is left to look at.
Ended(how, exc) ==
    /\ pc' = "exited"
    /\ exit_path' = how
    /\ uncaught' = exc
    /\ cycle_time' = clock
    /\ faces' = FALSE
    /\ eye_closed_now' = FALSE
    /\ mouth_open_now' = FALSE
    /\ eye_closed_start' = None
    /\ yawn_start' = None
    /\ is_drowsy' = FALSE
    /\ is_yawning' = FALSE
    /\ last_alert_time' = 0
    /\ sendLog' = << >>
    /\ alert_considered' = FALSE
    /\ alerted' = FALSE
    /\ alertLast' = None
    /\ alertGap' = None
    /\ eyeRun' = NoRun
    /\ mouthRun' = NoRun
    /\ surplus' = [ k \in Tokens |-> 0 ]
    /\ dropRun' = NoDrops
    /\ UNCHANGED << clock, reader, pipeBuf, pipe_fd, twin, sideVars >>

\* What an exception raised inside main() leaves behind: the handler of
\* __main__ takes KeyboardInterrupt, anything else leaves the program.
Escapes(exc) == IF Catches(MainHandlers, exc) THEN "none" ELSE exc

\* main() up to and including setup_pipe().
MainSetup ==
    /\ pc = "start"
    /\ \E umask \in Umasks, fault \in MkfifoFaults :
       \E r \in { SetupPipe(path_obj, umask, fault) } :
            /\ path_obj' = r.obj
            /\ IF r.exc = "none"
               THEN /\ pc' = "connect"
                    /\ setup_log' = [ called |-> TRUE, found |-> path_obj,
                                       exc |-> "none" ]
                    /\ UNCHANGED << clock, cycle_time, faces, eye_closed_now,
                                    mouth_open_now, eye_closed_start,
                                    yawn_start, is_drowsy, is_yawning,
                                    last_alert_time, pipe_fd, reader, pipeBuf,
                                    sendLog, alert_considered, alerted,
                                    alertLast, alertGap, eyeRun, mouthRun,
                                    surplus, exit_path, uncaught, dropRun,
                                    twin, sideVars >>
               ELSE /\ Ended("setup_error", Escapes(r.exc))
                    /\ setup_log' = [ called |-> TRUE, found |-> path_obj,
                                       exc |-> r.exc ]
            /\ UNCHANGED << fd_closed, teardowns, open_fds >>

\* The first os.open of the FIFO, in its try/except.
MainOpen ==
    /\ pc = "connect"
    /\ \E fault \in OpenFaults :
       \E r \in { OsOpen(OpenFlags, reader, fault) } :
            /\ pipe_fd' = IF r.exc = "none" THEN r.fd ELSE None
            /\ open_fds' = open_fds + (IF r.fd # None THEN 1 ELSE 0)
            /\ pc' = IF r.blocked THEN "blocked"
                     ELSE IF r.exc = "none" \/ Catches(InitialOpenHandlers, r.exc)
                     THEN "camera" ELSE "crashed"
    /\ setup_log' = NoSetup
    /\ UNCHANGED << clock, cycle_time, faces, eye_closed_now, mouth_open_now,
                    eye_closed_start, yawn_start, is_drowsy, is_yawning,
                    last_alert_time, reader, pipeBuf, sendLog,
                    alert_considered, alerted, alertLast, alertGap, eyeRun,
                    mouthRun, surplus, path_obj, fd_closed, teardowns,
                    exit_path, uncaught, dropRun, twin, sideVars >>

\* The camera start, from VideoCapture to the first frame.
MainCamera ==
    /\ pc = "camera"
    /\ \E outcome \in CameraOutcomes :
        IF outcome = "ok"
        THEN /\ pc' = "loop"
             /\ UNCHANGED << clock, cycle_time, faces, eye_closed_now,
                             mouth_open_now, eye_closed_start, yawn_start,
                             is_drowsy, is_yawning, last_alert_time, pipe_fd,
                             reader, pipeBuf, sendLog, alert_considered,
                             alerted, alertLast, alertGap, eyeRun, mouthRun,
                             surplus, procVars, dropRun, twin, sideVars >>
        ELSE /\ Ended(outcome, "none")
             /\ UNCHANGED << path_obj, fd_closed, teardowns, setup_log,
                             open_fds >>

\* Descriptors the send_event calls of a pass got from os.open.
OpenedBy(log) ==
    Cardinality({ i \in DOMAIN log : log[i].opens > 0 /\ log[i].oerr = "none" })

\* The pass, in a run that is followed from the start of main().
MainCycle ==
    /\ LoopPass
    /\ dropRun' = DropsAfter(dropRun, sendLog')
    /\ open_fds' = open_fds + OpenedBy(sendLog')
    /\ UNCHANGED << path_obj, fd_closed, teardowns, exit_path, uncaught,
                    setup_log, twin, sideVars >>

\* break, and the lines after the loop: the cleanup of the pipe.
MainBreak ==
    /\ pc = "loop"
    /\ \E how \in BreakReasons :
       \E c \in { Cleanup(pipe_fd, path_obj) } :
            /\ Ended(how, "none")
            /\ fd_closed' = c.closed
            /\ path_obj' = c.obj
            /\ teardowns' = teardowns + 1
            /\ open_fds' = open_fds - (IF c.closed THEN 1 ELSE 0)
            /\ UNCHANGED setup_log

\* An exception raised inside main() after setup_pipe(): the handler and
\* the finally clause of __main__.
MainRaise ==
    /\ pc \in { "connect", "camera", "loop" }
    /\ \E exc \in Raised :
            /\ Ended(IF Catches(MainHandlers, exc) THEN "interrupt" ELSE "error",
                     Escapes(exc))
            /\ UNCHANGED << path_obj, fd_closed, teardowns, setup_log,
                            open_fds >>

MainNext ==
    \/ MainSetup
    \/ MainOpen
    \/ MainCamera
    \/ MainCycle
    \/ MainBreak
    \/ MainRaise
    \/ ReaderAttach
    \/ ReaderDetach
    \/ ReaderRead

SpecMain == MainInit /\ [][MainNext]_vars

\* ------------------------------------------------ two runs side by side
\* A second run of the loop is fed the frames and the clock readings of
\* the first.  What differs between the two is the mode:
\*   "consumer"  the consumer's attach/detach/read history and the faults
\*               of the pipe's syscalls
\*   "mouth"     also the mouth readings (mar, jaw_open_score)
\*   "eye"       also the eye readings (ear, blink_score)
\* The second run's variables are the fields of twin; sent is the
\* event_type of each send_event call of its last pass.
\* time.time() at the start of the two runs: three seconds before the
\* end for the mode "consumer", two for the other modes.
TwinStart(mode) == IF mode = "consumer" THEN MaxTime - 3 ELSE MaxTime - 2

TwinAt(mode, fd) ==
    [ mode |-> mode, eye_closed_start |-> None, is_drowsy |-> FALSE,
      yawn_start |-> None, is_yawning |-> FALSE, last_alert_time |-> 0,
      pipe_fd |-> fd, pipeBuf |-> << >>, sent |-> << >>,
      alerted |-> FALSE, left |-> FALSE ]

\* Both runs at the start of the loop, each after its own first os.open.
TwinInitOf(modes) ==
    /\ pc = "loop"
    /\ clock \in { TwinStart(mode) : mode \in modes }
    /\ cycle_time = clock
    /\ faces = FALSE
    /\ eye_closed_now = FALSE
    /\ mouth_open_now = FALSE
    /\ eye_closed_start = None
    /\ yawn_start = None
    /\ is_drowsy = FALSE
    /\ is_yawning = FALSE
    /\ last_alert_time = 0
    /\ reader \in BOOLEAN
    /\ pipe_fd = OsOpen(OpenFlags, reader, "none").fd
    /\ pipeBuf = << >>
    /\ sendLog = << >>
    /\ alert_considered = FALSE
    /\ alerted = FALSE
    /\ alertLast = None
    /\ alertGap = None
    /\ eyeRun = NoRun
    /\ mouthRun = NoRun
    /\ surplus = [ k \in Tokens |-> 0 ]
    /\ path_obj = SetupPipe(NoObject, {}, "none").obj
    /\ fd_closed = FALSE
    /\ teardowns = 0
    /\ exit_path = "none"
    /\ uncaught = "none"
    /\ setup_log = NoSetup
    /\ dropRun = NoDrops
    /\ \E mode \in modes, rd2 \in BOOLEAN :
            twin = TwinAt(mode, OsOpen(OpenFlags, rd2, "none").fd)
    /\ SideInit

\* The event_type of each call.
TokensOf(calls) == [ i \in DOMAIN calls |-> calls[i].event_type ]

\* The second run's pass over the frame and the clock readings of the
\* first run's pass: the same blocks in the same order, on its own
\* variables and its own FIFO.  Its consumer is attached or not in each
\* pass as it likes (in mode "consumer") and never reads, so that its
\* sends meet ENXIO, EPIPE and EAGAIN on their own schedule; the injected
\* faults are left to the first run.
TwinPass ==
    \E eyeIn \in IF twin.mode = "eye" THEN EyeInputs ELSE { << 0, 0 >> },
       mouthIn \in IF twin.mode = "mouth" THEN MouthInputs ELSE { << 0, 0 >> },
       rd2 \in IF twin.mode = "consumer" THEN BOOLEAN ELSE { reader } :
        LET f      == faces'
            t1     == cycle_time'
            t2     == clock'
            eyeNow == IF twin.mode = "eye"
                      THEN EyeClosedNow(f, Measured(f, eyeIn[1]),
                                        Measured(f, eyeIn[2]))
                      ELSE eye_closed_now'
            mouthNow == IF twin.mode = "mouth"
                        THEN MouthOpenNow(f, Measured(f, mouthIn[1]),
                                          Measured(f, mouthIn[2]))
                        ELSE mouth_open_now'
            eStart == AfterFrame(f, twin.eye_closed_start, None)
            yStart == AfterFrame(f, twin.yawn_start, None)
            eFlag  == AfterFrame(f, twin.is_drowsy, FALSE)
            yFlag  == AfterFrame(f, twin.is_yawning, FALSE)
        IN  \E e \in { SignalStep(eyeNow, eStart, eFlag, DROWSY_TIME,
                                  DrowsyToken, t1, twin.pipe_fd, rd2,
                                  twin.pipeBuf, "none", "none") } :
            \E m \in { IF e.raised # "none" \/ e.blocked
                       THEN [ start |-> yStart, flag |-> yFlag,
                              fd |-> e.fd, buf |-> e.buf,
                              raised |-> e.raised, blocked |-> e.blocked,
                              calls |-> << >> ]
                       ELSE SignalStep(mouthNow, yStart, yFlag, YAWN_TIME,
                                       YawnToken, t1, e.fd, rd2, e.buf,
                                       "none", "none") } :
            \E left \in { m.raised # "none" \/ m.blocked } :
            \E fire \in { ~left /\ AlertConsidered(e.flag, m.flag)
                                /\ AlertDue(t2, twin.last_alert_time) } :
                twin' = [ mode |-> twin.mode,
                          eye_closed_start |-> e.start, is_drowsy |-> e.flag,
                          yawn_start |-> m.start, is_yawning |-> m.flag,
                          last_alert_time |->
                              IF fire THEN t2 ELSE twin.last_alert_time,
                          pipe_fd |-> m.fd, pipeBuf |-> m.buf,
                          sent |-> TokensOf(e.calls \o m.calls),
                          alerted |-> fire, left |-> left ]

\* One pass of both runs.
TwinCycle ==
    /\ ~twin.left
    /\ LoopPass
    /\ TwinPass
    /\ UNCHANGED << procVars, dropRun, sideVars >>

TwinNext ==
    \/ TwinCycle
    \/ ReaderAttach
    \/ ReaderDetach
    \/ ReaderRead

\* Two runs that differ in the consumer and the pipe's faults only.
SpecTwin == TwinInitOf({ "consumer" }) /\ [][TwinNext]_vars

\* Two runs that differ also in the readings of one of the two signals.
SpecSignals == TwinInitOf({ "mouth", "eye" }) /\ [][TwinNext]_vars

\* ------------------------------------------------ the readings of a frame
\* eye_aspect_ratio(eye_points), on the three distances it measures (A and
\* B between the lids, C between the corners, in pixels); the result in
\* hundredths.
EyeAspectRatio(A, B, C) ==
    IF C = 0 THEN 0 ELSE ((A + B) * 100) \div (2 * C)

\* current_ear = (left_ear + right_ear) / 2.0
CurrentEar(left, right) ==
    (EyeAspectRatio(left[1], left[2], left[3])
        + EyeAspectRatio(right[1], right[2], right[3])) \div 2

\* Distances (A, B, C) of one eye: open (EAR 0.50), at the threshold
\* (0.22), narrow (0.20), lids shut on each other (0), and corners that
\* coincide (the degenerate eye, 0).  Every ratio and every mean of two of
\* them is a whole number of hundredths.
EyeShapes ==
    { << 5, 5, 10 >>, << 5, 6, 25 >>, << 5, 5, 25 >>, << 0, 0, 10 >>,
      << 3, 3, 0 >> }

\* Blend-shape scores and mouth aspect ratios of a frame, below, at and
\* above their thresholds.
BlinkReadings == { 0, BLINK_SCORE_THRESHOLD - 1, BLINK_SCORE_THRESHOLD }
MarReadings == { 30, MAR_THRESHOLD, MAR_THRESHOLD + 1 }
JawReadings == { 0, JAW_OPEN_SCORE_THRESHOLD - 1, JAW_OPEN_SCORE_THRESHOLD }

\* The pass up to the two detection rules: the readings of the frame (or
\* their reset without a face), eye_closed_now and mouth_open_now.
DetectPass ==
    /\ pc = "loop"
    /\ \E f \in BOOLEAN, left \in EyeShapes, right \in EyeShapes,
          blink \in BlinkReadings, mar \in MarReadings, jaw \in JawReadings :
       \E r \in { [ ear   |-> Measured(f, CurrentEar(left, right)),
                    blink |-> Measured(f, blink),
                    mar   |-> Measured(f, mar),
                    jaw   |-> Measured(f, jaw) ] } :
            /\ faces' = f
            /\ measured' = r
            /\ eye_closed_now' = EyeClosedNow(f, r.ear, r.blink)
            /\ mouth_open_now' = MouthOpenNow(f, r.mar, r.jaw)
    /\ UNCHANGED << pc, clock, cycle_time, eye_closed_start, yawn_start,
                    is_drowsy, is_yawning, last_alert_time, pipe_fd, reader,
                    pipeBuf, sendLog, alert_considered, alerted, alertLast,
                    alertGap, eyeRun, mouthRun, surplus, procVars, dropRun,
                    twin, real, sustain, wsVars >>

DetectNext == DetectPass

\* The two detection rules over the readings a frame can give.
SpecDetect == Init /\ [][DetectNext]_vars

\* ------------------------------------------------ an adjusted system clock
\* time.time() at the start of a run whose system clock gets adjusted,
\* the largest adjustment, in seconds, in either direction, and the number
\* of adjustments followed in one run.
ClockStart == MaxTime - 3
MaxJump == 2
MaxAdjust == 1

\* The loop as main() enters it, three seconds before the end.
ClockInit ==
    /\ pc = "loop"
    /\ clock = ClockStart
    /\ cycle_time = ClockStart
    /\ faces = FALSE
    /\ eye_closed_now = FALSE
    /\ mouth_open_now = FALSE
    /\ eye_closed_start = None
    /\ yawn_start = None
    /\ is_drowsy = FALSE
    /\ is_yawning = FALSE
    /\ last_alert_time = 0
    /\ reader \in BOOLEAN
    /\ pipe_fd = OsOpen(OpenFlags, reader, "none").fd
    /\ pipeBuf = << >>
    /\ sendLog = << >>
    /\ alert_considered = FALSE
    /\ alerted = FALSE
    /\ alertLast = None
    /\ alertGap = None
    /\ eyeRun = NoRun
    /\ mouthRun = NoRun
    /\ surplus = [ k \in Tokens |-> 0 ]
    /\ path_obj = SetupPipe(NoObject, {}, "none").obj
    /\ fd_closed = FALSE
    /\ teardowns = 0
    /\ exit_path = "none"
    /\ uncaught = "none"
    /\ setup_log = NoSetup
    /\ dropRun = NoDrops
    /\ twin = NoTwin
    /\ SideInit

\* The untouched clock's reading for the cycle that set, kept or cleared a
\* start timestamp.
SinceNext(since, startBefore, startAfter, cycleReal) ==
    IF startAfter = None THEN None
    ELSE IF startBefore = None THEN cycleReal
    ELSE since

\* The pass, with the time it really takes: between two time.time() calls
\* of which none meets an adjustment, both clocks advance alike.
ClockCycle ==
    /\ LoopPass
    /\ \E cycleReal \in { real.now + (cycle_time' - clock) } :
         real' = [ now |-> real.now + (clock' - clock),
                   cycle |-> cycleReal,
                   eyeSince |-> SinceNext(real.eyeSince, eye_closed_start,
                                          eye_closed_start', cycleReal),
                   mouthSince |-> SinceNext(real.mouthSince, yawn_start,
                                            yawn_start', cycleReal),
                   adjusted |-> real.adjusted ]
    /\ real'.now <= MaxTime
    /\ UNCHANGED << procVars, dropRun, twin, measured, sustain, wsVars >>

\* Between two passes the system clock is set forwards or backwards (NTP
\* step, settimeofday, a user changing the time): time.time() follows it.
ClockAdjust ==
    /\ pc = "loop"
    /\ \E jump \in (-MaxJump..MaxJump) \ { 0 } :
            /\ clock + jump \in StartTime..MaxTime
            /\ clock' = clock + jump
    /\ real.adjusted < MaxAdjust
    /\ real' = [ real EXCEPT !.adjusted = @ + 1 ]
    /\ UNCHANGED << pc, cycle_time, faces, eye_closed_now, mouth_open_now,
                    eye_closed_start, yawn_start, is_drowsy, is_yawning,
                    last_alert_time, pipe_fd, reader, pipeBuf, sendLog,
                    alert_considered, alerted, alertLast, alertGap, eyeRun,
                    mouthRun, surplus, procVars, dropRun, twin, measured,
                    sustain, wsVars >>

ClockNext ==
    \/ ClockCycle
    \/ ClockAdjust

\* The loop under a system clock that is adjusted while it runs.
SpecClock == ClockInit /\ [][ClockNext]_vars

\* ------------------------------------------------ other sustain durations
\* The longest sustain duration the loop is run with, and time.time() at
\* the start of such a run.
MaxSustain == 2
SustainStart == MaxTime - MaxSustain

\* The loop as main() enters it, configured with one of the durations
\* 0..MaxSustain for both signals.
SustainInit ==
    /\ pc = "loop"
    /\ clock = SustainStart
    /\ cycle_time = SustainStart
    /\ faces = FALSE
    /\ eye_closed_now = FALSE
    /\ mouth_open_now = FALSE
    /\ eye_closed_start = None
    /\ yawn_start = None
    /\ is_drowsy = FALSE
    /\ is_yawning = FALSE
    /\ last_alert_time = 0
    /\ reader \in BOOLEAN
    /\ pipe_fd = OsOpen(OpenFlags, reader, "none").fd
    /\ pipeBuf = << >>
    /\ sendLog = << >>
    /\ alert_considered = FALSE
    /\ alerted = FALSE
    /\ alertLast = None
    /\ alertGap = None
    /\ eyeRun = NoRun
    /\ mouthRun = NoRun
    /\ surplus = [ k \in Tokens |-> 0 ]
    /\ path_obj = SetupPipe(NoObject, {}, "none").obj
    /\ fd_closed = FALSE
    /\ teardowns = 0
    /\ exit_path = "none"
    /\ uncaught = "none"
    /\ setup_log = NoSetup
    /\ dropRun = NoDrops
    /\ twin = NoTwin
    /\ measured = NoReadings
    /\ real = RealAt(clock)
    /\ open_fds = IF pipe_fd = None THEN 0 ELSE 1
    /\ \E d \in 0..MaxSustain : sustain = [ drowsy |-> d, yawn |-> d ]
    /\ manager = [ active_connections |-> [ u \in UserIds |-> 0 ],
                   user_sessions |-> [ u \in UserIds |-> 0 ] ]
    /\ detection_events = { }
    /\ connections = [ c \in Conns |-> NoConnection ]

\* The pass, with the durations of the run.
SustainCycle ==
    /\ LoopPassWith(sustain.drowsy, sustain.yawn)
    /\ UNCHANGED << procVars, dropRun, twin, sideVars >>

SustainNext == SustainCycle

\* The loop under every sustain duration from 0 on.
SpecSustain == SustainInit /\ [][SustainNext]_vars

\* ------------------------------------------------ websocket_endpoint
\* The variables of the detector, which the service never touches.
detectorVars ==
    << pc, clock, cycle_time, faces, eye_closed_now, mouth_open_now,
       eye_closed_start, yawn_start, is_drowsy, is_yawning, last_alert_time,
       pipe_fd, reader, pipeBuf, sendLog, alert_considered, alerted,
       alertLast, alertGap, eyeRun, mouthRun, surplus, procVars, dropRun,
       twin, measured, real, sustain >>

\* manager.disconnect(user_id)
Disconnect(mgr, user_id) ==
    [ active_connections |-> [ mgr.active_connections EXCEPT ![user_id] = 0 ],
      user_sessions |-> [ mgr.user_sessions EXCEPT ![user_id] = 0 ] ]

\* `except json.JSONDecodeError:` inside the loop: a warning in the log and
\* the error message to the client; the table is not touched and the loop
\* goes on.
\* (ExceptJSONDecodeErrorMissing: the loop body without this clause, the
\* exception reaches the handlers around the loop.)
ExceptJSONDecodeErrorMissing(rows) ==
    [ rows |-> rows, reply |-> [ type |-> "none", data |-> NoStats ],
      exc |-> "JSONDecodeError" ]
ExceptJSONDecodeError(rows) ==
    [ rows |-> rows, reply |-> [ type |-> "error", data |-> NoStats ],
      exc |-> "none" ]

\* The body of `while True:` for one received text.  Result: the table
\* afterwards, the message sent back ("none": nothing sent) and the
\* exception that left the loop ("none": the loop goes on).
HandleText(rows, user_id, session_id, data, fault) ==
    LET parsed == MessageType(data)
        uid == ToUuid(user_id)
        out(r, type, stats, exc) ==
            [ rows |-> r, reply |-> [ type |-> type, data |-> stats ],
              exc |-> exc ]
    IN  IF parsed.exc = "JSONDecodeError"
        THEN ExceptJSONDecodeError(rows)
        ELSE IF parsed.exc # "none"
        THEN out(rows, "none", NoStats, parsed.exc)
        ELSE IF parsed.type \in { "DROWSY", "YAWN" }
        THEN IF uid.exc # "none"
             THEN out(rows, "none", NoStats, uid.exc)
             ELSE LET logged == LogEvent(rows, uid.value, session_id,
                                         parsed.type, fault)
                  IN  IF logged.exc # "none"
                      THEN out(rows, "none", NoStats, logged.exc)
                      ELSE out(logged.rows, "stats",
                               GetSessionStats(logged.rows, uid.value,
                                               session_id),
                               "none")
        ELSE IF parsed.type = "ping"
        THEN out(rows, "pong", NoStats, "none")
        ELSE IF parsed.type = "get_stats"
        THEN IF uid.exc # "none"
             THEN out(rows, "none", NoStats, uid.exc)
             ELSE out(rows, "stats",
                      GetSessionStats(rows, uid.value, session_id), "none")
        ELSE out(rows, "none", NoStats, "none")

\* A client connects: manager.connect gives it a fresh session_id (uuid4,
\* here the next number) and the endpoint sends the "connected" message.
WsConnect ==
    \E c \in Conns, user_id \in UserIds :
    \E session_id \in { Cardinality({ k \in Conns :
                            connections[k].state # "idle" }) + 1 } :
        /\ connections[c].state = "idle"
        /\ \A k \in Conns : k < c => connections[k].state # "idle"
        /\ connections' =
             [ connections EXCEPT ![c] =
                 [ state |-> "open", user_id |-> user_id,
                   session_id |-> session_id, drowsy |-> 0, yawn |-> 0,
                   reply |-> [ type |-> "connected",
                               data |-> [ NoStats EXCEPT
                                            !.session_id = session_id ] ],
                   invalid_json |-> FALSE ] ]
        /\ manager' =
             [ active_connections |->
                 [ manager.active_connections EXCEPT ![user_id] = c ],
               user_sessions |->
                 [ manager.user_sessions EXCEPT ![user_id] = session_id ] ]
        /\ UNCHANGED << detection_events, detectorVars >>

\* A text arrives on an open connection and the loop body runs on it; an
\* exception other than JSONDecodeError ends the endpoint.
WsReceive ==
    \E c \in Conns, data \in Texts :
    \E fault \in IF MessageType(data).type \in { "DROWSY", "YAWN" }
                 THEN DbFaults ELSE { "none" } :
    \E conn \in { connections[c] } :
    \E r \in { HandleText(detection_events, conn.user_id, conn.session_id,
                          data, fault) } :
        /\ conn.state = "open"
        /\ Cardinality(detection_events) < MaxEvents
        /\ detection_events' = r.rows
        /\ connections' =
             [ connections EXCEPT ![c] =
                 IF r.exc # "none"
                 THEN [ EndedConnection EXCEPT
                          !.invalid_json =
                              MessageType(data).exc = "JSONDecodeError" ]
                 ELSE [ conn EXCEPT
                          !.invalid_json =
                              MessageType(data).exc = "JSONDecodeError",
                          !.drowsy = @ + (IF MessageType(data).type = "DROWSY"
                                          THEN 1 ELSE 0),
                          !.yawn = @ + (IF MessageType(data).type = "YAWN"
                                        THEN 1 ELSE 0),
                          !.reply = r.reply ] ]
        /\ manager' = IF r.exc = "none" THEN manager
                      ELSE Disconnect(manager, conn.user_id)
        /\ UNCHANGED detectorVars

\* The client goes away: receive_text raises WebSocketDisconnect.
WsDisconnect ==
    \E c \in Conns :
        /\ connections[c].state = "open"
        /\ connections' = [ connections EXCEPT ![c] = EndedConnection ]
        /\ manager' = Disconnect(manager, connections[c].user_id)
        /\ UNCHANGED << detection_events, detectorVars >>

WsNext ==
    \/ WsConnect
    \/ WsReceive
    \/ WsDisconnect

\* The service with its clients, next to a detector that stands still.
WsInit == Init /\ ~reader

SpecWs == WsInit /\ [][WsNext]_vars

TypeOK ==
    /\ pc \in { "start", "connect", "camera", "loop", "crashed", "blocked",
                 "exited" }
    /\ clock \in StartTime..MaxTime
    /\ eye_closed_start \in { None } \cup (StartTime..MaxTime)
    /\ yawn_start \in { None } \cup (StartTime..MaxTime)
    /\ is_drowsy \in BOOLEAN /\ is_yawning \in BOOLEAN
    /\ last_alert_time \in 0..MaxTime
    /\ pipe_fd \in { None, PipeFd }
    /\ Len(pipeBuf) <= PipeCap

\* ------------------------------------------------ properties
\* send_event calls of the last cycle with the given event_type.
Calls(token) == { i \in DOMAIN sendLog : sendLog[i].event_type = token }

\* Time from the first cycle of the run to the last cycle.
Elapsed(run) == cycle_time - run.first

\* Rising edge of one signal, in a cycle of a run.
RisingEdge(run, token, duration) ==
    run.first # None =>
        /\ (Calls(token) # {}) <=> (Elapsed(run) >= duration /\ ~run.reached)
        /\ Cardinality(Calls(token)) <= 1
        /\ run.events = IF Elapsed(run) >= duration THEN 1 ELSE 0

\* C1 -- rising-edge-only emission.  In every cycle of a run (consecutive
\* cycles, all with a face and over-threshold) the signal's event is
\* emitted exactly when the cycle is the first one whose timestamp is at
\* least the sustain duration after the run's first cycle, and a run that
\* has reached the sustain duration has emitted exactly one event, one that
\* has not has emitted none.
C1_RisingEdgeOnly ==
    /\ RisingEdge(eyeRun, "DROWSY", DROWSY_TIME)
    /\ RisingEdge(mouthRun, "YAWN", YAWN_TIME)

\* A run goes on past the cycle that emitted its DROWSY event: the later
\* cycle emits nothing.
C1_Witness ==
    /\ eyeRun.first # None
    /\ eyeRun.reached
    /\ Elapsed(eyeRun) > DROWSY_TIME
    /\ eyeRun.events = 1
    /\ Calls("DROWSY") = {}

\* Debounce of one signal.
Debounced(run, over, start, flag, duration) ==
    /\ (run.first # None /\ Elapsed(run) < duration) =>
            (run.events = 0 /\ ~flag /\ start = run.first)
    /\ ~over => (start = None /\ ~flag)

\* C2 -- debounce.  While a run is shorter than the sustain duration it
\* has emitted no event and the signal is not confirmed; and every cycle
\* that is not over-threshold ends with the signal Idle: start timestamp
\* cleared, confirmed flag false.
C2_Debounce ==
    /\ Debounced(eyeRun, eye_closed_now, eye_closed_start, is_drowsy,
                 DROWSY_TIME)
    /\ Debounced(mouthRun, mouth_open_now, yawn_start, is_yawning, YAWN_TIME)

\* An eye run that lasted one second was just ended by a frame with open
\* eyes: no event, Idle again.
C2_Witness ==
    /\ faces
    /\ ~eye_closed_now
    /\ eyeRun.ended = "down"
    /\ eyeRun.prevSpan = 1
    /\ eye_closed_start = None
    /\ ~is_drowsy

\* C3 -- reset idempotence.  For each signal the number of events emitted
\* so far equals the number of times its flag rose (Pending -> Confirmed),
\* and no run has emitted more than one event.
C3_OneEventPerConfirmation ==
    /\ surplus["DROWSY"] = 0
    /\ surplus["YAWN"] = 0
    /\ eyeRun.events <= 1
    /\ mouthRun.events <= 1
    /\ is_drowsy => eyeRun.events = 1
    /\ is_yawning => mouthRun.events = 1

\* The yawn signal has stayed confirmed for several cycles, with its one
\* event, while the eye signal went over, under and over again.
C3_Witness ==
    /\ is_yawning
    /\ mouthRun.reached
    /\ mouthRun.events = 1
    /\ eyeRun.prevSpan > 0
    /\ eyeRun.first # None
    /\ surplus["YAWN"] = 0

\* C4 -- face-loss override.  A cycle without a face ends with both
\* signals Idle and has made no send_event call.
C4_FaceLoss ==
    ~faces =>
        /\ eye_closed_start = None /\ ~is_drowsy
        /\ yawn_start = None /\ ~is_yawning
        /\ ~eye_closed_now /\ ~mouth_open_now
        /\ sendLog = << >>

\* The face was lost while the eye signal was Confirmed and the mouth
\* signal Pending.
C4_Witness ==
    /\ ~faces
    /\ eyeRun.ended = "up"
    /\ mouthRun.ended = "down"
    /\ eye_closed_start = None
    /\ ~is_drowsy

\* Confirmed state of one signal.
ConfirmedOnlyIfSustained(run, over, start, flag, token, duration) ==
    /\ flag => /\ start # None
               /\ start = run.first
               /\ cycle_time - start >= duration
    /\ run.rose => flag
    /\ ~over => (start = None /\ ~flag /\ Calls(token) = {})

\* C5 -- confirmed-state invariant.  A confirmed signal has a start
\* timestamp, that timestamp is the first cycle of the current run (so
\* every cycle since had a face and was over-threshold), and the cycle
\* that confirmed it, like every later one, is at least the sustain
\* duration after it; a cycle that is not over-threshold leaves the signal
\* Idle and emits no event for it.
C5_ConfirmedInvariant ==
    /\ ConfirmedOnlyIfSustained(eyeRun, eye_closed_now, eye_closed_start,
                                is_drowsy, "DROWSY", DROWSY_TIME)
    /\ ConfirmedOnlyIfSustained(mouthRun, mouth_open_now, yawn_start,
                                is_yawning, "YAWN", YAWN_TIME)

\* The eye signal is confirmed in this cycle while, in the same cycle, a
\* closed mouth in a frame with a face resets the confirmed mouth signal.
C5_Witness ==
    /\ eyeRun.rose
    /\ is_drowsy
    /\ cycle_time - eye_closed_start >= DROWSY_TIME
    /\ faces
    /\ mouthRun.ended = "up"
    /\ ~is_yawning

\* Restart of one signal's sustain timer.
RestartsAfterReset(run, start, flag, token, duration) ==
    (run.first # None /\ run.prevSpan > 0) =>
        /\ start = run.first
        /\ flag <=> (Elapsed(run) >= duration)
        /\ Calls(token) # {} => Elapsed(run) >= duration
        /\ Elapsed(run) < duration => run.events = 0

\* C6 -- the sustain timer restarts after a reset.  In a run that follows
\* an interrupted run (one that ended Pending after prevSpan seconds), the
\* start timestamp is the first cycle of the new run, the signal is
\* confirmed exactly when the new run alone has lasted the sustain
\* duration, and an event is emitted only in such a cycle: the seconds of
\* the interrupted run never count.
C6_TimerRestarts ==
    /\ RestartsAfterReset(eyeRun, eye_closed_start, is_drowsy, "DROWSY",
                          DROWSY_TIME)
    /\ RestartsAfterReset(mouthRun, yawn_start, is_yawning, "YAWN", YAWN_TIME)

\* One second of closed eyes, an interruption, and the DROWSY event of the
\* second run, emitted two seconds after that run began.
C6_Witness ==
    /\ eyeRun.prevSpan = 1
    /\ eyeRun.rose
    /\ Calls("DROWSY") # {}
    /\ Elapsed(eyeRun) = DROWSY_TIME

\* C7 -- cooldown with one global timer.  Two consecutive
\* play_alert_sound calls are at least ALERT_COOLDOWN apart, whichever
\* signals were confirmed at either call.
C7_CooldownEnforced ==
    /\ alertGap # None => alertGap >= ALERT_COOLDOWN
    /\ alerted => (alertLast = clock /\ last_alert_time = clock)

\* A second alert, in a cycle where both signals are confirmed.
C7_Witness ==
    /\ alerted
    /\ alertGap # None
    /\ is_drowsy
    /\ is_yawning

\* C8 (as stated) -- a cycle that reaches the cooldown test fires, and
\* stamps last_alert_time, if and only if at least ALERT_COOLDOWN has
\* passed since the last firing or there was none.
C8_FiresAtCooldown ==
    alert_considered =>
        IF alerted
        THEN /\ last_alert_time = clock
             /\ (alertGap = None \/ alertGap >= ALERT_COOLDOWN)
        ELSE /\ alertLast # None
             /\ ~(clock - last_alert_time >= ALERT_COOLDOWN)

\* C8 (amended) -- a cycle that reaches the cooldown test fires, and
\* stamps last_alert_time, if and only if strictly more than
\* ALERT_COOLDOWN has passed since the last firing or there was none; a
\* cycle that does not reach the test does not fire.
C8_FiresAfterCooldown ==
    /\ alert_considered =>
        IF alerted
        THEN /\ last_alert_time = clock
             /\ (alertGap = None \/ alertGap > ALERT_COOLDOWN)
        ELSE /\ alertLast # None
             /\ last_alert_time = alertLast
             /\ clock - last_alert_time <= ALERT_COOLDOWN
    /\ ~alert_considered => ~alerted

\* The test is made exactly ALERT_COOLDOWN after the last firing and does
\* not fire.
C8_Witness ==
    /\ alert_considered
    /\ ~alerted
    /\ clock - last_alert_time = ALERT_COOLDOWN

\* C9 -- delivery is independent of the cooldown.  A cycle calls
\* send_event with DROWSY exactly once when it raised is_drowsy and not at
\* all otherwise, with YAWN exactly once when it raised is_yawning and not
\* at all otherwise, and makes no other send_event call.
C9_SendOnEveryConfirmation ==
    /\ Cardinality(Calls("DROWSY")) = IF eyeRun.rose THEN 1 ELSE 0
    /\ Cardinality(Calls("YAWN")) = IF mouthRun.rose THEN 1 ELSE 0
    /\ Len(sendLog) = Cardinality(Calls("DROWSY")) + Cardinality(Calls("YAWN"))

\* is_drowsy rises, and DROWSY is sent, in a cycle whose alert the running
\* cooldown suppresses.
C9_Witness ==
    /\ eyeRun.rose
    /\ Calls("DROWSY") # {}
    /\ alert_considered
    /\ ~alerted

\* C10 -- send_event never raises.  Every send_event call returned to the
\* loop, without waiting, whatever os.open and os.write did; a call made
\* with no descriptor while no reader is attached made one open attempt,
\* wrote nothing and returned None.
C10_SendNeverRaises ==
    /\ pc = "loop"
    /\ \A i \in DOMAIN sendLog :
        /\ sendLog[i].raised = "none"
        /\ ~sendLog[i].blocked
        /\ (sendLog[i].fd_in = None /\ ~sendLog[i].reader) =>
              /\ sendLog[i].fd_out = None
              /\ sendLog[i].writes = << >>
              /\ sendLog[i].opens = 1

\* Two calls in one cycle on a descriptor whose reader has gone: both
\* writes fail with EPIPE and both calls return.
C10_Witness ==
    /\ Len(sendLog) = 2
    /\ \A i \in DOMAIN sendLog :
        /\ sendLog[i].fd_in = PipeFd
        /\ ~sendLog[i].reader
        /\ sendLog[i].werr = "BrokenPipeError"
        /\ sendLog[i].raised = "none"

\* ------------------------------------------------ the channel over time
\* A step of the consumer (attach, detach, read); every other step that
\* changes the state is a pass of the sampling loop.
ReaderStep == ReaderAttach \/ ReaderDetach \/ ReaderRead

\* The call held a descriptor and its os.write raised.
FailedWrite(call) == call.fd_in # None /\ call.werr # "none"

\* C12 -- a failed write does not invalidate the handle.  A send_event
\* call that holds a descriptor makes no os.open call, makes its one
\* os.write on that descriptor and returns that same descriptor, whether
\* or not the write raised; the next send_event call, in the same cycle or
\* in a later one, is handed that descriptor again and writes on it.
C12_FailedWriteKeepsHandle ==
    /\ [](/\ \A i \in DOMAIN sendLog :
                sendLog[i].fd_in # None =>
                    /\ sendLog[i].fd_out = sendLog[i].fd_in
                    /\ sendLog[i].opens = 0
                    /\ sendLog[i].writes = << Encode(sendLog[i].event_type) >>
          /\ \A i \in DOMAIN sendLog :
                i > 1 => sendLog[i].fd_in = sendLog[i - 1].fd_out
          /\ sendLog # << >> => pipe_fd = sendLog[Len(sendLog)].fd_out)
    /\ [][ (~ReaderStep /\ sendLog' # << >>) =>
               sendLog'[1].fd_in = pipe_fd ]_vars
    /\ [][ ReaderStep => pipe_fd' = pipe_fd ]_vars

\* The DROWSY write fails with an OS error while a reader is attached;
\* the YAWN call of the same cycle gets the same descriptor and its write
\* succeeds.
C12_Witness ==
    /\ Len(sendLog) = 2
    /\ FailedWrite(sendLog[1])
    /\ sendLog[1].werr = "OSError"
    /\ sendLog[1].fd_out = PipeFd
    /\ sendLog[2].fd_in = PipeFd
    /\ sendLog[2].opens = 0
    /\ sendLog[2].werr = "none"
    /\ pipe_fd = PipeFd

\* C13 (as stated) -- connection state machine.  A send_event call made
\* without a descriptor ends Connected exactly when its try_connect_pipe
\* succeeded; a call made with a descriptor ends Disconnected exactly when
\* its write failed fatally (EPIPE, the reader is gone), so that a later
\* call makes a new connect attempt.
C13_DisconnectsOnFatalWrite ==
    \A i \in DOMAIN sendLog :
        /\ sendLog[i].fd_in = None =>
              /\ sendLog[i].opens = 1
              /\ sendLog[i].fd_out # None <=> sendLog[i].oerr = "none"
        /\ sendLog[i].fd_in # None =>
              (sendLog[i].fd_out = None <=> sendLog[i].werr = "BrokenPipeError")

\* C13 (amended) -- connection state machine.  The connection is
\* Disconnected (pipe_fd is None) until an os.open of the FIFO succeeds,
\* which only a send_event call made without a descriptor attempts, once
\* per call; from then on it is Connected and stays Connected: no write
\* failure, fatal or not, and no step of the consumer changes pipe_fd.
C13_ConnectedIsKept ==
    /\ [](\A i \in DOMAIN sendLog :
            /\ sendLog[i].fd_in = None =>
                  /\ sendLog[i].opens = 1
                  /\ sendLog[i].fd_out # None <=> sendLog[i].oerr = "none"
            /\ sendLog[i].fd_in # None =>
                  /\ sendLog[i].opens = 0
                  /\ sendLog[i].fd_out # None)
    /\ [][ pipe_fd # None => pipe_fd' = pipe_fd ]_vars
    /\ [][ (pipe_fd = None /\ pipe_fd' # None) =>
              /\ ~ReaderStep
              /\ \E i \in DOMAIN sendLog' :
                    /\ sendLog'[i].fd_in = None
                    /\ sendLog'[i].opens = 1
                    /\ sendLog'[i].oerr = "none" ]_vars

\* A write on a held descriptor failed with EPIPE, the descriptor was
\* kept, and a reader has attached again since.
C13_Witness ==
    /\ Len(sendLog) = 1
    /\ sendLog[1].fd_in = PipeFd
    /\ ~sendLog[1].reader
    /\ sendLog[1].werr = "BrokenPipeError"
    /\ sendLog[1].fd_out = PipeFd
    /\ pipe_fd = PipeFd
    /\ reader

\* The lines the os.write calls of a cycle put into the kernel buffer, in
\* the order of the calls.
Written(log) ==
    LET done == SelectSeq(log, LAMBDA c : c.writes # << >> /\ c.werr = "none")
    IN  [ i \in 1..Len(done) |-> done[i].writes[1] ]

\* seq is what is left of old after some of its oldest lines were taken.
IsSuffix(seq, old) ==
    \E k \in 0..Len(old) : seq = SubSeq(old, k + 1, Len(old))

\* C18 -- emission order.  Within a cycle the DROWSY call comes before the
\* YAWN call; a cycle puts the lines it writes behind every line written
\* by earlier cycles, in the order of its calls; and the consumer only
\* ever takes lines from the front.  So the sequence of tokens in the
\* pipe is in the order of the cycles that triggered them.
C18_EmissionOrder ==
    /\ [](/\ Len(sendLog) <= 2
          /\ Len(sendLog) = 2 =>
                /\ sendLog[1].event_type = "DROWSY"
                /\ sendLog[2].event_type = "YAWN")
    /\ [][ ~ReaderStep => pipeBuf' = pipeBuf \o Written(sendLog') ]_vars
    /\ [][ ReaderStep => IsSuffix(pipeBuf', pipeBuf) ]_vars

\* An unread YAWN of an earlier cycle is in the buffer, and the DROWSY of
\* the last cycle was put behind it.
C18_Witness ==
    /\ Len(sendLog) = 1
    /\ sendLog[1].event_type = "DROWSY"
    /\ sendLog[1].werr = "none"
    /\ pipeBuf = << Encode("YAWN"), Encode("DROWSY") >>

\* The number of lines of a cycle's writes that carry the token.
WrittenOf(log, token) ==
    Cardinality({ i \in DOMAIN Written(log) : Written(log)[i] = Encode(token) })

C11_NextSendDelivers ==
    \A i \in DOMAIN sendLog :
        sendLog[i].reader =>
            /\ sendLog[i].fd_in = None => sendLog[i].opens = 1
            /\ sendLog[i].fd_out = PipeFd
            /\ sendLog[i].writes = << Encode(sendLog[i].event_type) >>
            /\ sendLog[i].werr = "none"

\* C11 (amended) -- reconnect transparency.  Whatever number of sends was
\* dropped before for lack of a reader, a send_event call made while a
\* reader is attached is never dropped for lack of a reader: without a
\* descriptor it makes one os.open, which does not fail with ENXIO, and
\* unless the operating system fails that open for another reason it
\* makes its os.write in the same call, on the new descriptor or on the one
\* kept from a reader that has gone, and the write does not fail with
\* EPIPE; unless the kernel buffer is full or the operating system fails
\* the write for another reason, the line is in the pipe for the reader.
C11_NoDropWithReader ==
    /\ [](\A i \in DOMAIN sendLog :
            sendLog[i].reader =>
                /\ sendLog[i].fd_in = None =>
                      /\ sendLog[i].opens = 1
                      /\ sendLog[i].oerr \in { "none", "FileNotFoundError" }
                /\ sendLog[i].fd_in # None => sendLog[i].opens = 0
                /\ sendLog[i].oerr = "none" =>
                      /\ sendLog[i].fd_out = PipeFd
                      /\ sendLog[i].writes = << Encode(sendLog[i].event_type) >>
                      /\ sendLog[i].werr \in { "none", "BlockingIOError", "OSError" })
    /\ [][ ~ReaderStep => pipeBuf' = pipeBuf \o Written(sendLog') ]_vars

\* Two sends in a row were dropped while the producer had no descriptor
\* and no reader was attached; a reader attached, and the next call opened
\* the FIFO and wrote its line.
C11_Witness ==
    /\ sendLog # << >>
    /\ dropRun.before >= 2
    /\ sendLog[Len(sendLog)].reader
    /\ sendLog[Len(sendLog)].fd_in = None
    /\ sendLog[Len(sendLog)].opens = 1
    /\ sendLog[Len(sendLog)].fd_out = PipeFd
    /\ sendLog[Len(sendLog)].werr = "none"
    /\ pipeBuf # << >>
    /\ pipeBuf[Len(pipeBuf)] = Encode(sendLog[Len(sendLog)].event_type)

\* ------------------------------------------------ the end of the process
\* setup_pipe() has returned in this run of main().
PipeCreated == pc # "start" /\ exit_path # "setup_error"

\* C14 (as stated) -- teardown on every exit path.  Once setup_pipe has
\* made the FIFO, a process that has ended, by whatever path, has run the
\* cleanup of the pipe exactly once: a held descriptor was closed and
\* nothing is left at PIPE_PATH.
C14_TeardownOnEveryExit ==
    (pc = "exited" /\ PipeCreated) =>
        /\ teardowns = 1
        /\ pipe_fd # None => fd_closed
        /\ path_obj.kind = "none"

\* The process was ended by Ctrl+C while it held a descriptor: the handler
\* of __main__ ran, the cleanup did not, the descriptor was never closed
\* and the FIFO is still at PIPE_PATH.
C14_Witness ==
    /\ pc = "exited"
    /\ exit_path = "interrupt"
    /\ uncaught = "none"
    /\ teardowns = 0
    /\ pipe_fd = PipeFd
    /\ ~fd_closed
    /\ path_obj.kind = "fifo"

\* ------------------------------------------------ setup
\* A FIFO with mode 600.
OwnerOnlyPipe == [ kind |-> "fifo", perms |-> { "S_IRUSR", "S_IWUSR" } ]

\* C15 -- setup is idempotent.  Whatever is at PIPE_PATH (nothing, a stale
\* FIFO, a file, ...), a setup_pipe call that returns leaves a FIFO with
\* owner-only read/write permission there, and a second call right after
\* it returns too and leaves just that again; the FIFO main() works with
\* is the one its setup_pipe call made, with no reader and no data when
\* the call returns.
C15_SetupIdempotent ==
    /\ [](/\ \A umask \in Umasks :
                LET once == SetupPipe(path_obj, umask, "none")
                IN  once.exc = "none" =>
                        /\ once.obj = OwnerOnlyPipe
                        /\ SetupPipe(once.obj, umask, "none") = once
          /\ (setup_log.called /\ setup_log.exc = "none") =>
                path_obj = OwnerOnlyPipe
          /\ pc \in ReaderPhases => path_obj = OwnerOnlyPipe)
    /\ [][ (pc = "start" /\ pc' = "connect") =>
              /\ path_obj' = OwnerOnlyPipe
              /\ ~reader'
              /\ pipeBuf' = << >> ]_vars

\* setup_pipe found a FIFO with mode 644 at the path and has replaced it.
C15_Witness ==
    /\ pc = "connect"
    /\ setup_log.called
    /\ setup_log.exc = "none"
    /\ setup_log.found.kind = "fifo"
    /\ "S_IROTH" \in setup_log.found.perms
    /\ path_obj = OwnerOnlyPipe

\* C16 -- setup failure is the only fatal error.  A setup_pipe call that
\* cannot make the FIFO ends the process with its OSError leaving the
\* program, before any pass of the loop, and nothing happens afterwards;
\* once setup_pipe has returned, no os.open and no os.write on the FIFO
\* ends or stalls the run: the first os.open leads to the camera start
\* whatever it raised, every send_event call returns to the loop, and a run
\* ends only by break, by a return of the camera start, by Ctrl+C or by an
\* error that is not the pipe's.
C16_OnlySetupIsFatal ==
    /\ [](/\ exit_path = "setup_error" =>
                /\ pc = "exited"
                /\ IsSubclass(uncaught, "OSError")
                /\ setup_log.exc = uncaught
                /\ path_obj.kind # "fifo"
                /\ clock = MainStart
                /\ pipe_fd = None
          /\ pc \notin { "crashed", "blocked" }
          /\ \A i \in DOMAIN sendLog :
                sendLog[i].raised = "none" /\ ~sendLog[i].blocked
          /\ sendLog # << >> => pc = "loop"
          /\ (pc = "exited" /\ exit_path # "setup_error") =>
                /\ exit_path \in { "no_camera", "no_frame", "read_fail",
                                   "quit", "interrupt", "error" }
                /\ uncaught \in { "none" } \cup (Raised \ MainHandlers))
    /\ [][ pc = "start" =>
              \/ pc' = "connect" /\ path_obj'.kind = "fifo" /\ exit_path' = "none"
              \/ pc' = "exited" /\ exit_path' = "setup_error" ]_vars
    /\ [][ exit_path # "setup_error" ]_vars
    /\ [][ (pc \in ReaderPhases /\ exit_path' = "none") =>
              pc' \in ReaderPhases ]_vars

\* A directory sits at PIPE_PATH: os.remove raised, the exception left
\* main() and the program, and the process has ended before the camera
\* was opened.
C16_Witness ==
    /\ pc = "exited"
    /\ exit_path = "setup_error"
    /\ setup_log.found.kind = "dir"
    /\ uncaught = "IsADirectoryError"
    /\ path_obj.kind = "dir"
    /\ clock = MainStart

\* ------------------------------------------------ two runs compared
\* The number of calls with the token in the second run's last pass.
TwinSent(token) ==
    Cardinality({ i \in DOMAIN twin.sent : twin.sent[i] = token })

\* C17 -- detection is independent of the consumer.  Two runs fed the same
\* frames and clock readings, whose consumers attach, detach and read
\* differently and whose pipe syscalls fail differently, have after every
\* pass the same start timestamps and flags of both signals, have made
\* the same send_event calls (tokens, in order) in the pass, have fired
\* the alert in the same passes, and both go on looping.
C17_ConsumerIndependence ==
    /\ twin.eye_closed_start = eye_closed_start
    /\ twin.is_drowsy = is_drowsy
    /\ twin.yawn_start = yawn_start
    /\ twin.is_yawning = is_yawning
    /\ twin.sent = TokensOf(sendLog)
    /\ twin.alerted = alerted
    /\ twin.last_alert_time = last_alert_time
    /\ ~twin.left
    /\ pc = "loop"

\* Both signals were confirmed in one pass.  The first run wrote DROWSY to
\* its consumer and lost YAWN to an OS error; the second run has never had
\* a consumer and holds no descriptor.  Both made the two calls and both
\* fired the alert.
C17_Witness ==
    /\ Len(sendLog) = 2
    /\ sendLog[1].werr = "none"
    /\ sendLog[2].werr = "OSError"
    /\ pipe_fd = PipeFd
    /\ twin.pipe_fd = None
    /\ twin.sent = << "DROWSY", "YAWN" >>
    /\ alerted
    /\ twin.alerted
    /\ is_drowsy
    /\ twin.is_drowsy

\* C20 -- the two signals do not interact.  Two runs fed the same frames'
\* face presence, the same clock readings and the same eye readings but
\* different mouth readings have after every pass the same eye start
\* timestamp and flag and have made the same DROWSY calls in the pass; two
\* runs that differ in the eye readings only agree in the same way on the
\* mouth signal and the YAWN calls.
C20_SignalsIndependent ==
    /\ twin.mode = "mouth" =>
          /\ twin.eye_closed_start = eye_closed_start
          /\ twin.is_drowsy = is_drowsy
          /\ TwinSent("DROWSY") = Cardinality(Calls("DROWSY"))
    /\ twin.mode = "eye" =>
          /\ twin.yawn_start = yawn_start
          /\ twin.is_yawning = is_yawning
          /\ TwinSent("YAWN") = Cardinality(Calls("YAWN"))
    /\ ~twin.left
    /\ pc = "loop"

\* DROWSY is confirmed and sent in the same pass of both runs, while the
\* first run's mouth signal is confirmed and the second run's mouth has
\* been closed all along.
C20_Witness ==
    /\ twin.mode = "mouth"
    /\ Calls("DROWSY") # {}
    /\ TwinSent("DROWSY") = 1
    /\ is_drowsy
    /\ twin.is_drowsy
    /\ is_yawning
    /\ ~twin.is_yawning
    /\ twin.yawn_start = None

\* ------------------------------------------------ the detection rules
\* C21 (as stated) -- eye over-threshold rule.  In a cycle with a face,
\* eye_closed_now holds if and only if the EAR is below EAR_THRESHOLD or
\* the blink score is at least BLINK_SCORE_THRESHOLD, for every EAR, the 0
\* of a degenerate eye included.
C21_EyeRule ==
    faces =>
        (eye_closed_now <=> (measured.ear < EAR_THRESHOLD
                                \/ measured.blink >= BLINK_SCORE_THRESHOLD))

\* A face whose two eyes give EAR 0, with a blink score under its
\* threshold: the eyes count as open.
C21_Witness ==
    /\ faces
    /\ measured.ear = 0
    /\ measured.blink < BLINK_SCORE_THRESHOLD
    /\ ~eye_closed_now

\* C29 -- mouth over-threshold rule.  In a cycle with a face,
\* mouth_open_now holds if and only if the MAR is strictly above
\* MAR_THRESHOLD or the jaw-open score is at least
\* JAW_OPEN_SCORE_THRESHOLD; without a face it does not hold.
C29_MouthRule ==
    /\ faces =>
        (mouth_open_now <=> (measured.mar > MAR_THRESHOLD
                                \/ measured.jaw >= JAW_OPEN_SCORE_THRESHOLD))
    /\ ~faces => ~mouth_open_now

\* A MAR exactly at the threshold with a jaw score just under its own: the
\* mouth counts as closed.
C29_Witness ==
    /\ faces
    /\ measured.mar = MAR_THRESHOLD
    /\ measured.jaw = JAW_OPEN_SCORE_THRESHOLD - 1
    /\ ~mouth_open_now

\* ------------------------------------------------ the clock of the timers
\* One signal's sustain timer, measured on the clock no adjustment touches.
OnRealTime(start, flag, since, duration) ==
    /\ flag => real.cycle - since >= duration
    /\ (start # None /\ ~flag) => real.cycle - since < duration

\* C22 (as stated) -- immunity to system-clock adjustments.  With a system
\* clock that jumps forwards or backwards between cycles, a signal is
\* Confirmed only when at least the sustain duration of real time has
\* passed since it entered Pending, and a signal that is still Pending
\* after a cycle entered Pending less than the sustain duration of real
\* time before that cycle.
C22_SustainOnRealTime ==
    /\ OnRealTime(eye_closed_start, is_drowsy, real.eyeSince, DROWSY_TIME)
    /\ OnRealTime(yawn_start, is_yawning, real.mouthSince, YAWN_TIME)

\* The eye signal is Confirmed, and DROWSY sent, in a cycle that really
\* came less than DROWSY_TIME after the one that entered Pending.
C22_Witness ==
    /\ is_drowsy
    /\ eyeRun.rose
    /\ Calls("DROWSY") # {}
    /\ real.cycle - real.eyeSince < DROWSY_TIME

\* ------------------------------------------------ what goes over the pipe
\* The two lines of the protocol.
Lines == { << "DROWSY", "\n" >>, << "YAWN", "\n" >> }

\* C23 -- wire format.  Every os.write of a cycle carries exactly one of
\* the two lines DROWSY\n and YAWN\n, each send_event call makes at most
\* one write, DROWSY is written only in a cycle that confirmed the eye
\* signal and YAWN only in one that confirmed the mouth signal, and the
\* kernel buffer holds nothing but whole lines of the two kinds.
C23_WireFormat ==
    /\ \A i \in DOMAIN sendLog :
        /\ Len(sendLog[i].writes) <= 1
        /\ \A j \in DOMAIN sendLog[i].writes :
            /\ sendLog[i].writes[j] \in Lines
            /\ sendLog[i].writes[j][1] = "DROWSY" => eyeRun.rose
            /\ sendLog[i].writes[j][1] = "YAWN" => mouthRun.rose
    /\ Cardinality({ i \in DOMAIN sendLog : sendLog[i].writes # << >> })
            <= (IF eyeRun.rose THEN 1 ELSE 0) + (IF mouthRun.rose THEN 1 ELSE 0)
    /\ \A k \in DOMAIN pipeBuf : pipeBuf[k] \in Lines

\* A cycle that confirmed both signals wrote DROWSY\n and then YAWN\n, one
\* write each, and both lines are in the buffer.
C23_Witness ==
    /\ Len(sendLog) = 2
    /\ sendLog[1].writes = << << "DROWSY", "\n" >> >>
    /\ sendLog[2].writes = << << "YAWN", "\n" >> >>
    /\ sendLog[1].werr = "none"
    /\ sendLog[2].werr = "none"
    /\ eyeRun.rose
    /\ mouthRun.rose
    /\ Len(pipeBuf) = 2

\* ------------------------------------------------ the cooldown timer
\* C24 -- the cooldown timer is changed only by firing.  last_alert_time
\* is 0 until the first play_alert_sound call and the timestamp of the
\* last call ever after: no cycle without an alert (nothing confirmed,
\* cooldown running, a signal reset, the face lost) changes it.
C24_TimerOnlyByFiring ==
    last_alert_time = IF alertLast = None THEN 0 ELSE alertLast

\* The face is lost, and both signals are reset, while the cooldown of an
\* earlier alert is running: the timer still holds that alert's time.
C24_Witness ==
    /\ ~faces
    /\ eyeRun.ended = "up"
    /\ ~alerted
    /\ alertLast # None
    /\ last_alert_time = alertLast
    /\ clock - last_alert_time <= ALERT_COOLDOWN

\* ------------------------------------------------ the producer's descriptor
\* The call made its one os.open attempt because it came without a
\* descriptor.
LazyOpen(call) == call.fd_in = None /\ call.opens = 1

\* C25 -- reconnection is lazy.  Inside the loop every send_event call
\* makes one os.open attempt when it comes without a descriptor and none
\* when it comes with one, never more than one; and the loop's descriptor
\* changes only in a pass that made such a call: a pass without an event
\* makes no attempt.
C25_LazyReconnect ==
    /\ [](\A i \in DOMAIN sendLog :
            sendLog[i].opens = IF sendLog[i].fd_in = None THEN 1 ELSE 0)
    /\ [][(pc = "loop" /\ pipe_fd' # pipe_fd) =>
            (\E i \in DOMAIN sendLog' : LazyOpen(sendLog'[i]))]_vars
    /\ [][(pc = "loop" /\ open_fds' > open_fds) =>
            (\E i \in DOMAIN sendLog' : LazyOpen(sendLog'[i]))]_vars

\* The first os.open found no reader; a reader came; passes without an
\* event left the descriptor None, and the first event's send_event call
\* made the one attempt that connected.
C25_Witness ==
    /\ pc = "loop"
    /\ Len(sendLog) = 1
    /\ LazyOpen(sendLog[1])
    /\ sendLog[1].oerr = "none"
    /\ pipe_fd = PipeFd
    /\ open_fds = 1

\* C26 -- single write handle.  The process holds no descriptor of the
\* FIFO or exactly one, pipe_fd; each was opened with O_WRONLY and
\* O_NONBLOCK and without read access; and a send_event call that opened
\* one came without a descriptor, so none is replaced while still open.
C26_SingleWriteHandle ==
    /\ pipe_fd \in { None, PipeFd }
    /\ open_fds = IF pipe_fd # None /\ ~fd_closed THEN 1 ELSE 0
    /\ OpenFlags \cap { "O_WRONLY", "O_RDONLY", "O_RDWR" } = { "O_WRONLY" }
    /\ "O_NONBLOCK" \in OpenFlags
    /\ \A i \in DOMAIN sendLog :
            sendLog[i].fd_out # sendLog[i].fd_in => sendLog[i].fd_in = None

\* Two events in one pass on a descriptor that the first of the two calls
\* opened: the second call writes on it and opens nothing.
C26_Witness ==
    /\ Len(sendLog) = 2
    /\ sendLog[1].fd_in = None
    /\ sendLog[1].fd_out = PipeFd
    /\ sendLog[2].fd_in = PipeFd
    /\ sendLog[2].opens = 0
    /\ open_fds = 1
    /\ pipe_fd = PipeFd

\* ------------------------------------------------ entering Pending
\* A pass in which one signal goes from Idle to over-threshold: it sets
\* the start to the cycle's timestamp, leaves the flag down and makes no
\* send_event call for the signal.
EntersQuietly(overAfter, startBefore, startAfter, flagAfter, callsAfter) ==
    (overAfter /\ startBefore = None) =>
        /\ startAfter = cycle_time'
        /\ ~flagAfter
        /\ callsAfter = {}

\* C27 -- no event on the cycle that enters Pending.  Under every sustain
\* duration from 0 on, the first over-threshold cycle after Idle only
\* records the start timestamp: it neither confirms the signal nor emits
\* its event, so a confirmation takes at least two over-threshold cycles.
C27_NoEventOnEntering ==
    /\ [][EntersQuietly(eye_closed_now', eye_closed_start, eye_closed_start',
                        is_drowsy',
                        { i \in DOMAIN sendLog' :
                            sendLog'[i].event_type = "DROWSY" })]_vars
    /\ [][EntersQuietly(mouth_open_now', yawn_start, yawn_start',
                        is_yawning',
                        { i \in DOMAIN sendLog' :
                            sendLog'[i].event_type = "YAWN" })]_vars

\* With a sustain duration of 0 the eye signal is Pending after its first
\* over-threshold cycle: start recorded, flag down, nothing sent.
C27_Witness ==
    /\ sustain.drowsy = 0
    /\ eye_closed_now
    /\ eyeRun.first = cycle_time
    /\ ~eyeRun.reached
    /\ eye_closed_start = cycle_time
    /\ ~is_drowsy
    /\ Calls("DROWSY") = {}

\* With a sustain duration of 0 the second over-threshold cycle, at the
\* same timestamp as the first, confirms the signal and sends DROWSY.
C27_SecondCycleConfirms ==
    /\ sustain.drowsy = 0
    /\ eyeRun.reached
    /\ eyeRun.rose
    /\ cycle_time = eye_closed_start
    /\ Calls("DROWSY") # {}

\* ------------------------------------------------ alert and confirmation
\* C28 -- the alert follows confirmation.  A cycle reaches the cooldown
\* test exactly when it ends with is_drowsy or is_yawning set; such a
\* cycle that does not call play_alert_sound is within ALERT_COOLDOWN of
\* the last call, and one that calls it stamps last_alert_time; no other
\* cycle calls it.
C28_AlertFollowsConfirmation ==
    pc = "loop" =>
        /\ alert_considered <=> (is_drowsy \/ is_yawning)
        /\ (alert_considered /\ ~alerted) =>
                clock - last_alert_time <= ALERT_COOLDOWN
        /\ alerted => (alert_considered /\ last_alert_time = clock)

\* A signal that has stayed Confirmed gets its next alert once the
\* cooldown is over, in a cycle without any rising edge.
C28_Witness ==
    /\ alerted
    /\ alertGap # None
    /\ alertGap > ALERT_COOLDOWN
    /\ ~eyeRun.rose
    /\ ~mouthRun.rose
    /\ sendLog = << >>
    /\ is_yawning

\* ------------------------------------------------ session statistics
\* The stats a connection is owed after the messages it has received.
StatsOwed(conn) ==
    [ session_id |-> conn.session_id,
      drowsy_count |-> conn.drowsy,
      yawn_count |-> conn.yawn,
      total_events |-> conn.drowsy + conn.yawn ]

OpenOf(user_id) ==
    { c \in Conns : /\ connections[c].state = "open"
                    /\ connections[c].user_id = user_id }

\* C31 (as stated) -- registry consistency under overlapping connections.
\* For every user_id with at least one open connection, the manager holds
\* an entry for that user: active_connections names one of the user's open
\* connections and user_sessions holds the session id of that connection.
C31_RegistryConsistent ==
    \A u \in UserIds :
        OpenOf(u) # { } =>
            /\ manager.active_connections[u] \in OpenOf(u)
            /\ manager.user_sessions[u]
                 = connections[manager.active_connections[u]].session_id

\* A user opened a second connection and the first one then ended: the
\* second is still open and the manager has no entry for the user.
C31_Witness ==
    \E u \in UserIds :
        /\ connections[1].state = "ended"
        /\ connections[2].state = "open"
        /\ connections[2].user_id = u
        /\ manager.active_connections[u] = 0
        /\ manager.user_sessions[u] = 0

\* C32 -- malformed input is survivable.  A connection whose last text was
\* no valid JSON is still in its loop and has been sent the one error
\* reply; the step that handled the text logged no event and changed
\* neither the manager's entries nor the connection's session id, user id
\* and counts; a stats reply that follows carries the connection's counts
\* as before; and the manager drops a user's entry only in a step in which
\* the loop of a connection of that user ends, which a malformed text
\* never brings about.
C32_MalformedSurvivable ==
    /\ [](\A c \in Conns :
            connections[c].invalid_json =>
                /\ connections[c].state = "open"
                /\ connections[c].reply = [ type |-> "error", data |-> NoStats ])
    /\ [][\A c \in Conns :
            /\ (connections'[c] # connections[c] /\ connections'[c].invalid_json) =>
                 /\ detection_events' = detection_events
                 /\ manager' = manager
                 /\ connections'[c] =
                      [ connections[c] EXCEPT
                          !.reply = [ type |-> "error", data |-> NoStats ],
                          !.invalid_json = TRUE ]
            /\ (connections[c].invalid_json /\ connections'[c].reply.type = "stats") =>
                 connections'[c].reply.data = StatsOwed(connections'[c])]_vars
    /\ [][\A u \in UserIds :
            (manager.active_connections[u] # 0
               /\ manager'.active_connections[u] = 0) =>
                \E c \in Conns :
                    /\ connections[c].state = "open"
                    /\ connections[c].user_id = u
                    /\ connections'[c].state = "ended"
                    /\ ~connections'[c].invalid_json]_vars

\* A registered connection that has logged an event and then got a text
\* that is no JSON: it is open, still registered under its session id, and
\* the event is in the table.
C32_Witness ==
    \E c \in Conns :
        /\ connections[c].invalid_json
        /\ connections[c].state = "open"
        /\ connections[c].reply.type = "error"
        /\ connections[c].drowsy = 1
        /\ manager.active_connections[connections[c].user_id] = c
        /\ manager.user_sessions[connections[c].user_id] = connections[c].session_id
        /\ \E r \in detection_events : r.session_id = connections[c].session_id

====
